---- MODULE Spec2Model ----
(***************************************************************************)
(* State-machine model of the concurrent scraping pipelines of             *)
(* ro9scrapers:                                                            *)
(*   - journals_scraper/main.py : JournalScraper.run / _get_journals /     *)
(*     aom._scrapes (fan-out over start URIs, retry with backoff);         *)
(*   - sec.gov/sec_01.py, sec_00.py : main / get_10k / get_item_1c         *)
(*     (multi-hop navigation per 10-K filing);                             *)
(*   - griffith.edu.au/main.py : main / get_scholarship.                   *)
(*   - journals_scraper/main.py : Crawler.run (one scraper per domain);     *)
(*   - sec.gov/sec_01.py parse_method_1, sec_02.py _parse_item_1c,          *)
(*     sec_00.py parse_method_2, not_decendants, remove_decendants          *)
(*     (functions over a parsed document, applied to bounded trees).        *)
(* Each program has its own group of variables and its own specification;  *)
(* the actions of one program leave the variables of the others alone.     *)
(***************************************************************************)
EXTENDS Integers, Sequences, FiniteSets, TLC

VARIABLES
  \* ---- journals_scraper ----
  jkind,         \* the scraper class the instance was built from
  start_uris,    \* the argument of JournalScraper.run
  jrunpc,        \* position of JournalScraper.run
  jpc,           \* position of each _get_journals coroutine
  jtries,        \* the `tries` argument of the innermost _get_journals frame
  jleft,         \* pagination links still to fetch in aom._scrapes
  jcurrent_url,  \* self._current_url, shared by all coroutines of the instance
  jheaders,      \* the `headers` local of the _get_url frame of each coroutine
                 \* while its fetch is in flight: the referer entry
  jout,          \* what each _get_journals coroutine returned or raised
  jqueue,        \* finished coroutines as_completed has not handed out yet
  jresults,      \* the `results` list of run
  jlog,          \* history of each live coroutine: outcomes of the fetch of
                 \* start_uri, backoff sleeps, and any later fetch that failed
  \* ---- sec.gov ----
  svariant,      \* which program runs: "sec_01" (asyncio) or "sec_00" (sync)
  smainpc,       \* position of main / get_10k
  ssem,          \* value of the asyncio.Semaphore(9) of sec_01.main
  spc,           \* position of each get_item_1c: the hop it waits for
  sdoc,          \* whether the filing response carried a `doc` parameter
  sout,          \* what each get_item_1c returned or raised
  squeue,        \* finished get_item_1c not yet handed to get_10k's loop
  sresult,       \* the `result` list of get_10k
  slog,          \* history of each get_item_1c: fetches issued / received
  \* ---- griffith.edu.au ----
  gsite,         \* the remote site: how many scholarships, which pages can fail
  gmainpc,       \* position of main
  gsem,          \* value of the asyncio.Semaphore(5) of main
  ground,        \* rounds of the `while` loop started so far (saturating)
  ghtml,         \* datum.html of each scholarship
  gpc,           \* position of each get_scholarship coroutine
  gretries,      \* the `retries` argument of its innermost frame
  gfetches,      \* fetch attempts of the coroutine of the current round
  gout,          \* what the coroutine returned or raised
  gqueue,        \* finished coroutines not yet handed to main's loop
  gresults,      \* the `results` list of the current round
  \* ---- journals_scraper: Crawler ----
  cinput,        \* self._input: registered domain -> start URIs, in dict order
  cpc,           \* position of Crawler.run
  cidx,          \* entries of self._input the `for` loop has gone through
  cresult,       \* the `result` list of Crawler.run
  \* ---- sec.gov: functions over a parsed document ----
  tparent,       \* the element tree: parent of each element, document order
  tnode,         \* tag, own text and id attribute of each element
  fin,           \* the node list a list function is called with
  fpc,           \* which function has been applied ("input": none yet)
  fout,          \* what the function returned or raised
  \* ---- the shared session of sec_01.main and journals_scraper main ----
  kookies,       \* the cookie list main is called with
  session,       \* the AsyncSession: its default headers and its cookie jar
  \* ---- journals_scraper: _scrape_articles under one _get_journals ----
  akind,         \* the scraper class whose _scrapes fans out over articles
  apc,           \* position of each get_article_coro
  aout,          \* what each get_article_coro returned or raised
  aqueue,        \* finished coroutines as_completed has not handed out yet
  aresult,       \* the `result` list of _scrape_articles
  ajpc,          \* position of the enclosing _get_journals
  ajout          \* what the enclosing _get_journals returned or raised

jrnVars == <<jkind, start_uris, jrunpc, jpc, jtries, jleft, jcurrent_url,
             jheaders, jout, jqueue, jresults, jlog>>

secVars == <<svariant, smainpc, ssem, spc, sdoc, sout, squeue, sresult, slog>>

grfVars == <<gsite, gmainpc, gsem, ground, ghtml, gpc, gretries, gfetches,
             gout, gqueue, gresults>>

crwVars == <<cinput, cpc, cidx, cresult>>

fnVars == <<tparent, tnode, fin, fpc, fout>>

sesVars == <<kookies, session>>

artVars == <<akind, apc, aout, aqueue, aresult, ajpc, ajout>>

vars == <<jrnVars, secVars, grfVars, crwVars, fnVars, sesVars, artVars>>

\* what the actions of one program leave alone
notJrn == <<secVars, grfVars, crwVars, fnVars, sesVars, artVars>>
notSec == <<jrnVars, grfVars, crwVars, fnVars, sesVars, artVars>>
notGrf == <<jrnVars, secVars, crwVars, fnVars, sesVars, artVars>>
notFn == <<jrnVars, secVars, grfVars, crwVars, sesVars, artVars>>
notArt == <<jrnVars, secVars, grfVars, crwVars, fnVars, sesVars>>
notSes == <<jrnVars, secVars, grfVars, fnVars, artVars>>

(***************************************************************************)
(* Bounds of the model.                                                    *)
(***************************************************************************)
MaxUris == 2      \* longest start_uris list explored
MaxPages == 1     \* most pagination links a listing page carries
MaxLinks == 2     \* most 10-K links the current-filings list carries
MaxScholarships == 6  \* most scholarships the listing page carries
MaxFlaky == 1     \* most scholarship pages whose fetch can fail
MaxRounds == 2    \* rounds of the griffith `while` loop explored
MaxDomains == 2   \* most entries of the Crawler input mapping
MaxNodes == 4     \* most elements below <body> in a parsed document
MaxSub == 2       \* most nodes of one repeatable entity field
MaxArticles == 3  \* most articles the listing of one Work Item carries
MaxCookies == 1   \* longest cookie list main is called with

(***************************************************************************)
(* Values shared by the three programs.                                    *)
(***************************************************************************)
None == [type |-> "None"]

\* An exception object: its class, what it says, and the Work Item URLs its
\* message text carries.
Exc(type, cause, urls) == [type |-> type, cause |-> cause, urls |-> urls]

IsExc(v) == v.type \notin {"None", "Journals", "SECCompany"}

\* Classes of the exceptions the pipelines raise; all derive from Exception.
ExceptionSubclasses ==
  {"Exception", "AssertionError", "RequestsError", "IndexError", "TypeError"}

\* `except Exception` in JournalScraper.run and in griffith main.
except_Exception_narrow(type) == type = "Exception"
except_Exception(type) == type \in ExceptionSubclasses

Last(s) == s[Len(s)]

(***************************************************************************)
(* The session main builds                                                 *)
(***************************************************************************)
\* the cookie lists main can be called with; a cookie has an "expires" key
\* (as extract_headers_cookies.py writes it) or lacks it
Kookies == UNION {[1..n -> [expires : BOOLEAN]] : n \in 0..MaxCookies}

\* before main has built its session
no_session == [headers |-> "none", cookies |-> 0]

\* AsyncSession(headers=...): the default headers of the file, and no cookie
\* set through session.cookies.set yet
new_session == [headers |-> "bheaders", cookies |-> 0]

\* `for ck in cookies: session.cookies.set(**ck)`
set_cookies_skipped(s, ks) == s
set_cookies(s, ks) == [s EXCEPT !.cookies = @ + Len(ks)]

(***************************************************************************)
(* journals_scraper/main.py                                                *)
(***************************************************************************)
Uris == 1..Len(start_uris)

NoUrl == [uri |-> 0, hop |-> "none", k |-> 0]
Url(u, hop, k) == [uri |-> u, hop |-> hop, k |-> k]

\* res.raise_for_status() / a transport error inside _get_url: the message
\* names the status, not the Work Item.
fetch_error == Exc("RequestsError", "fetch failed", <<>>)

\* _get_url: `if self._current_url: headers["referer"] = self._current_url`.
\* The value is the referer the request carries; NoUrl: the entry is absent
\* (and no request of the coroutine is in flight).
referer(current_url) == current_url

\* `tries=4` in the signature of _get_journals.
tries_default == 4

\* `if tries > 0` in _get_journals.
retry_allowed_short(tries) == tries > 2
retry_allowed(tries) == tries > 0

\* Exception(f"{e}: {start_uri}")
wrap_with_uri(e, start_uri) == Exc("Exception", e.cause, Append(e.urls, start_uri))

\* Journals(start_uri, [Journal.from_dict(d) for d in data])
Journals(start_uri, n) == [type |-> "Journals", uri |-> start_uri, n |-> n]

JrnStart ==
  /\ jkind \in {"JournalScraper", "aom"}
  /\ \E n \in 0..MaxUris : start_uris = [k \in 1..n |-> k]
  /\ jrunpc = "idle"
  /\ jpc = [u \in Uris |-> "new"]
  /\ jtries = [u \in Uris |-> tries_default]
  /\ jleft = [u \in Uris |-> 0]
  /\ jcurrent_url = NoUrl
  /\ jheaders = [u \in Uris |-> NoUrl]
  /\ jout = [u \in Uris |-> None]
  /\ jqueue = <<>>
  /\ jresults = <<>>
  /\ jlog = [u \in Uris |-> <<>>]

Ev(ev, hop) == [ev |-> ev, hop |-> hop]

\* A coroutine ends: its outcome is stored in its future and as_completed
\* queues it for run.
JrnFinish(u, value, events) ==
  /\ jpc' = [jpc EXCEPT ![u] = IF IsExc(value) THEN "raised" ELSE "returned"]
  /\ jout' = [jout EXCEPT ![u] = value]
  /\ jqueue' = Append(jqueue, u)
  /\ jlog' = [jlog EXCEPT ![u] = @ \o events]

\* run: asyncio.as_completed([self._get_journals(uri) for uri in start_uris])
run_call ==
  /\ jrunpc = "idle"
  /\ jrunpc' = "collect"
  /\ UNCHANGED notJrn
  /\ UNCHANGED <<jkind, start_uris, jpc, jtries, jleft, jcurrent_url,
                 jheaders, jout, jqueue, jresults, jlog>>

\* _get_journals runs to its first suspension: the fetch of start_uri.
get_journals_call(u) ==
  /\ jrunpc = "collect"
  /\ jpc[u] = "new"
  /\ jpc' = [jpc EXCEPT ![u] = "get_parser"]
  /\ jheaders' = [jheaders EXCEPT ![u] = referer(jcurrent_url)]
  /\ UNCHANGED notJrn
  /\ UNCHANGED <<jkind, start_uris, jrunpc, jtries, jleft, jcurrent_url, jout,
                 jqueue, jresults, jlog>>

\* The fetch of start_uri comes back. On success _scrapes starts and runs to
\* its first suspension (or to its end, in the base class). The tasks that
\* as_completed created are all scheduled before run suspends, so each has run
\* to its first suspension before the event loop handles any response.
get_journals_fetched(u) ==
  /\ jrunpc = "collect"
  /\ jpc[u] = "get_parser"
  /\ \A v \in Uris : jpc[v] /= "new"
  /\ \E ok \in BOOLEAN, has_link \in BOOLEAN :
       IF ok
       THEN /\ jcurrent_url' = Url(u, "start", 0)
            /\ UNCHANGED <<jtries, jleft>>
            /\ jheaders' = [jheaders EXCEPT ![u] =
                              IF jkind /= "JournalScraper" /\ has_link
                              THEN referer(Url(u, "start", 0)) ELSE NoUrl]
            /\ IF jkind = "JournalScraper"
               THEN JrnFinish(u, Journals(start_uris[u], 1),
                              <<Ev("ok", "start")>>)
               ELSE IF has_link
                    THEN /\ jpc' = [jpc EXCEPT ![u] = "scrapes_link"]
                         /\ jlog' = [jlog EXCEPT ![u] = Append(@, Ev("ok", "start"))]
                         /\ UNCHANGED <<jout, jqueue>>
                    ELSE JrnFinish(u, Exc("AssertionError", "_scrapes: no link", <<>>),
                                   <<Ev("ok", "start")>>)
       ELSE /\ has_link = FALSE
            /\ UNCHANGED <<jcurrent_url, jtries, jleft>>
            /\ jheaders' = [jheaders EXCEPT ![u] = NoUrl]
            /\ IF retry_allowed(jtries[u])
               THEN /\ jpc' = [jpc EXCEPT ![u] = "sleep"]
                    /\ jlog' = [jlog EXCEPT ![u] = Append(@, Ev("fail", "start"))]
                    /\ UNCHANGED <<jout, jqueue>>
               ELSE JrnFinish(u, wrap_with_uri(fetch_error, start_uris[u]),
                              <<Ev("fail", "start")>>)
  /\ UNCHANGED notJrn
  /\ UNCHANGED <<jkind, start_uris, jrunpc, jresults>>

\* asyncio.sleep(random.uniform(0.5, 1.5)) is over: the recursive call
\* _get_journals(start_uri, tries - 1) issues the fetch again.
get_journals_slept(u) ==
  /\ jrunpc = "collect"
  /\ jpc[u] = "sleep"
  /\ jpc' = [jpc EXCEPT ![u] = "get_parser"]
  /\ jtries' = [jtries EXCEPT ![u] = @ - 1]
  /\ jlog' = [jlog EXCEPT ![u] = Append(@, Ev("sleep", "start"))]
  /\ jheaders' = [jheaders EXCEPT ![u] = referer(jcurrent_url)]
  /\ UNCHANGED notJrn
  /\ UNCHANGED <<jkind, start_uris, jrunpc, jleft, jcurrent_url, jout, jqueue,
                 jresults>>

\* aom._scrapes: the fetch of the In-Press link comes back.
scrapes_link_fetched(u) ==
  /\ jrunpc = "collect"
  /\ jpc[u] = "scrapes_link"
  /\ \E ok \in BOOLEAN, nps \in 0..MaxPages :
       IF ok
       THEN /\ jcurrent_url' = Url(u, "link", 0)
            /\ jheaders' = [jheaders EXCEPT ![u] =
                              IF nps = 0 THEN NoUrl
                              ELSE referer(Url(u, "link", 0))]
            /\ IF nps = 0
               THEN /\ JrnFinish(u, Journals(start_uris[u], 1), <<>>)
                    /\ UNCHANGED jleft
               ELSE /\ jpc' = [jpc EXCEPT ![u] = "scrapes_page"]
                    /\ jleft' = [jleft EXCEPT ![u] = nps]
                    /\ UNCHANGED jlog
                    /\ UNCHANGED <<jout, jqueue>>
       ELSE /\ nps = 0
            /\ JrnFinish(u, fetch_error, <<Ev("fail", "link")>>)
            /\ jheaders' = [jheaders EXCEPT ![u] = NoUrl]
            /\ UNCHANGED <<jcurrent_url, jleft>>
  /\ UNCHANGED notJrn
  /\ UNCHANGED <<jkind, start_uris, jrunpc, jtries, jresults>>

\* aom._scrapes: the fetch of one pagination link comes back.
scrapes_page_fetched(u) ==
  /\ jrunpc = "collect"
  /\ jpc[u] = "scrapes_page"
  /\ \E ok \in BOOLEAN :
       IF ok
       THEN /\ jcurrent_url' = Url(u, "page", jleft[u])
            /\ jheaders' = [jheaders EXCEPT ![u] =
                              IF jleft[u] = 1 THEN NoUrl
                              ELSE referer(Url(u, "page", jleft[u]))]
            /\ jleft' = [jleft EXCEPT ![u] = @ - 1]
            /\ IF jleft[u] = 1
               THEN JrnFinish(u, Journals(start_uris[u], 1), <<>>)
               ELSE /\ UNCHANGED jlog
                    /\ UNCHANGED <<jpc, jout, jqueue>>
       ELSE /\ JrnFinish(u, fetch_error, <<Ev("fail", "page")>>)
            /\ jheaders' = [jheaders EXCEPT ![u] = NoUrl]
            /\ UNCHANGED <<jcurrent_url, jleft>>
  /\ UNCHANGED notJrn
  /\ UNCHANGED <<jkind, start_uris, jrunpc, jtries, jresults>>

\* run: `results.append(await r)` inside try / except Exception. The frames
\* of the awaited coroutine are gone: its locals and its history are dropped.
run_collect ==
  /\ jrunpc = "collect"
  /\ jqueue /= <<>>
  /\ LET v == jout[Head(jqueue)] IN
       IF IsExc(v) /\ ~except_Exception(v.type)
       THEN /\ jrunpc' = "escaped"
            /\ UNCHANGED jresults
       ELSE /\ jresults' = Append(jresults, v)
            /\ UNCHANGED jrunpc
  /\ jqueue' = Tail(jqueue)
  /\ jlog' = [jlog EXCEPT ![Head(jqueue)] = <<>>]
  /\ jtries' = [jtries EXCEPT ![Head(jqueue)] = 0]
  /\ UNCHANGED notJrn
  /\ UNCHANGED <<jkind, start_uris, jpc, jleft, jcurrent_url, jheaders, jout>>

\* run: as_completed is exhausted, `return results`.
run_return ==
  /\ jrunpc = "collect"
  /\ \A u \in Uris : jpc[u] \in {"returned", "raised"}
  /\ jqueue = <<>>
  /\ jrunpc' = "returned"
  /\ UNCHANGED notJrn
  /\ UNCHANGED <<jkind, start_uris, jpc, jtries, jleft, jcurrent_url,
                 jheaders, jout, jqueue, jresults, jlog>>

JrnNext ==
  \/ run_call
  \/ \E u \in Uris : get_journals_call(u)
  \/ \E u \in Uris : get_journals_fetched(u)
  \/ \E u \in Uris : get_journals_slept(u)
  \/ \E u \in Uris : scrapes_link_fetched(u)
  \/ \E u \in Uris : scrapes_page_fetched(u)
  \/ run_collect
  \/ run_return

(***************************************************************************)
(* journals_scraper/main.py : Crawler                                      *)
(***************************************************************************)
\* Crawler._scrapers, restricted to the scraper class modelled above.
\* tld.extract(regd).domain of every other key of the input is not a key of
\* the dictionary.
scrapers == [aom |-> "aom"]

\* Registered domains of the input mapping: one with a scraper class and one
\* without.
Domains == {"aom", "other"}

\* No JournalScraper instance exists.
JrnOff ==
  /\ jkind = "JournalScraper"
  /\ start_uris = <<>>
  /\ jrunpc = "off"
  /\ jpc = <<>>
  /\ jtries = <<>>
  /\ jleft = <<>>
  /\ jcurrent_url = NoUrl
  /\ jheaders = <<>>
  /\ jout = <<>>
  /\ jqueue = <<>>
  /\ jresults = <<>>
  /\ jlog = <<>>

\* Crawler(session, input)
CrwStart ==
  /\ \E n \in 0..MaxDomains :
       cinput \in [1..n -> [domain : Domains, n : 1..MaxUris]]
  /\ cpc = "loop"
  /\ cidx = 0
  /\ cresult = <<>>

\* One turn of `for regd, start_uris in self._input.items()`: `continue` when
\* the domain has no scraper class, else build the scraper and call its run.
crawler_run_loop ==
  /\ cpc = "loop"
  /\ cidx < Len(cinput)
  /\ LET entry == cinput[cidx + 1] IN
       IF entry.domain \notin DOMAIN scrapers
       THEN /\ cidx' = cidx + 1
            /\ UNCHANGED cpc
            /\ UNCHANGED jrnVars
       ELSE /\ cpc' = "await"
            /\ UNCHANGED cidx
            /\ jkind' = scrapers[entry.domain]
            /\ start_uris' = [k \in 1..entry.n |-> k]
            /\ jrunpc' = "idle"
            /\ jpc' = [u \in 1..entry.n |-> "new"]
            /\ jtries' = [u \in 1..entry.n |-> tries_default]
            /\ jleft' = [u \in 1..entry.n |-> 0]
            /\ jcurrent_url' = NoUrl
            /\ jheaders' = [u \in 1..entry.n |-> NoUrl]
            /\ jout' = [u \in 1..entry.n |-> None]
            /\ jqueue' = <<>>
            /\ jresults' = <<>>
            /\ jlog' = [u \in 1..entry.n |-> <<>>]
  /\ UNCHANGED <<cinput, cresult>>
  /\ UNCHANGED <<secVars, grfVars, fnVars, sesVars, artVars>>

\* `journals = await scraper.run(start_uris)` is back:
\* result.extend(journals); an exception of run leaves Crawler.run.
crawler_run_extend ==
  /\ cpc = "await"
  /\ jrunpc \in {"returned", "escaped"}
  /\ IF jrunpc = "escaped"
     THEN /\ cpc' = "raised"
          /\ UNCHANGED <<cidx, cresult>>
     ELSE /\ cpc' = "loop"
          /\ cidx' = cidx + 1
          /\ cresult' = cresult \o jresults
  /\ jkind' = "JournalScraper"
  /\ start_uris' = <<>>
  /\ jrunpc' = "off"
  /\ jpc' = <<>>
  /\ jtries' = <<>>
  /\ jleft' = <<>>
  /\ jcurrent_url' = NoUrl
  /\ jheaders' = <<>>
  /\ jout' = <<>>
  /\ jqueue' = <<>>
  /\ jresults' = <<>>
  /\ jlog' = <<>>
  /\ UNCHANGED cinput
  /\ UNCHANGED <<secVars, grfVars, fnVars, sesVars, artVars>>

\* the loop is over: `return result`
crawler_run_return ==
  /\ cpc = "loop"
  /\ cidx = Len(cinput)
  /\ cpc' = "returned"
  /\ UNCHANGED <<cinput, cidx, cresult>>
  /\ UNCHANGED <<jrnVars, secVars, grfVars, fnVars, sesVars, artVars>>

CrwNext ==
  \/ crawler_run_loop
  \/ crawler_run_extend
  \/ crawler_run_return
  \/ JrnNext

(***************************************************************************)
(* sec.gov/sec_01.py (asyncio) and sec.gov/sec_00.py (synchronous)         *)
(***************************************************************************)
Items == 1..Len(spc)

\* asyncio.Semaphore(9) in sec_01.main
SemaphoreValue == 9

\* `[...][:10]` in get_10k
TenKCap == 10

Launched(n) == IF n > TenKCap THEN TenKCap ELSE n

\* The fetches of get_item_1c in program order: the filing index (2nd page),
\* the filing document link (3rd page), MetaLinks.json, the ix.html viewer
\* (4th page) and the rendered document (5th page).
next_hop_without_metalinks(hop) ==
  CASE hop = "index" -> "filing"
    [] hop = "filing" -> "viewer"
    [] hop = "viewer" -> "rendered"
    [] OTHER -> "rendered"
next_hop_viewer_first(hop) ==
  CASE hop = "index" -> "filing"
    [] hop = "filing" -> "viewer"
    [] hop = "viewer" -> "metalinks"
    [] OTHER -> "rendered"
next_hop(hop) ==
  CASE hop = "index" -> "filing"
    [] hop = "filing" -> "metalinks"
    [] hop = "metalinks" -> "viewer"
    [] OTHER -> "rendered"

\* sec_01: doc = params_3.get("doc", [])[0]
doc_sec_01(has_doc) == IF has_doc THEN "doc" ELSE "IndexError"
\* sec_00: doc = params_3.get("doc")
doc_sec_00(has_doc) == IF has_doc THEN "doc" ELSE "None"

\* get_parser fails: raise_for_status() in sec_01, `assert res.status_code
\* == 200` in sec_00.
get_parser_error(variant) ==
  IF variant = "sec_01" THEN Exc("RequestsError", "fetch failed", <<>>)
  ELSE Exc("AssertionError", "status_code != 200", <<>>)

SECCompany(tree, item_1c) == [type |-> "SECCompany", tree |-> tree, item_1c |-> item_1c]

SecStart ==
  /\ svariant \in {"sec_01", "sec_00"}
  /\ smainpc = "start"
  /\ ssem = SemaphoreValue
  /\ spc = <<>>
  /\ sdoc = <<>>
  /\ sout = <<>>
  /\ squeue = <<>>
  /\ sresult = <<>>
  /\ slog = <<>>

\* main enters its `async with` (sec_01: the session and the semaphore, which
\* main itself acquires), sets the cookies (sec_01) and calls get_10k, which
\* fetches the list.
sec_main_enter ==
  /\ smainpc = "start"
  /\ smainpc' = "list"
  /\ ssem' = IF svariant = "sec_01" THEN ssem - 1 ELSE ssem
  /\ session' = IF svariant = "sec_01" THEN set_cookies(new_session, kookies)
                ELSE new_session
  /\ UNCHANGED kookies
  /\ UNCHANGED <<jrnVars, grfVars, crwVars, fnVars, artVars>>
  /\ UNCHANGED <<svariant, spc, sdoc, sout, squeue, sresult, slog>>

\* get_10k: the list of current filings comes back; one get_item_1c per 10-K
\* link is created (sec_01: by as_completed; sec_00: by the generator loop).
get_10k_listed ==
  /\ smainpc = "list"
  /\ \E ok \in BOOLEAN, n \in 0..MaxLinks :
       IF ok
       THEN /\ smainpc' = "collect"
            /\ spc' = [i \in 1..Launched(n) |-> "new"]
            /\ sdoc' = [i \in 1..Launched(n) |-> "unknown"]
            /\ sout' = [i \in 1..Launched(n) |-> None]
            /\ slog' = [i \in 1..Launched(n) |-> <<>>]
            /\ UNCHANGED ssem
       ELSE /\ n = 0
            /\ smainpc' = "raised_list"
            /\ ssem' = IF svariant = "sec_01" THEN ssem + 1 ELSE ssem
            /\ UNCHANGED <<spc, sdoc, sout, slog>>
  /\ UNCHANGED notSec
  /\ UNCHANGED <<svariant, squeue, sresult>>

\* The coroutine issues the fetch of `hop` and suspends on it.
SecIssue(i, came, hop) ==
  /\ spc' = [spc EXCEPT ![i] = hop]
  /\ slog' = [slog EXCEPT ![i] = @ \o came \o <<Ev("issue", hop)>>]
  /\ UNCHANGED <<sout, squeue>>

\* get_item_1c ends with `value`.
SecFinish(i, came, value) ==
  /\ spc' = [spc EXCEPT ![i] = IF IsExc(value) THEN "raised" ELSE "returned"]
  /\ sout' = [sout EXCEPT ![i] = value]
  /\ squeue' = Append(squeue, i)
  /\ slog' = [slog EXCEPT ![i] = @ \o came]

\* parse_entity, the locator methods and the construction of the record, on
\* the tree of the response of `hop`; `debuging` and re-raise on any failure.
SecExtract(i, hop, complete, found) ==
  IF complete
  THEN SecFinish(i, <<Ev("recv", hop), Ev("extract", hop)>>,
                 SECCompany(hop, IF found THEN "text" ELSE "None"))
  ELSE SecFinish(i, <<Ev("recv", hop), Ev("extract", hop)>>,
                 Exc("TypeError", "record construction", <<>>))

\* get_item_1c runs to its first suspension: the fetch of the filing index.
\* sec_00 is a generator chain: an item starts when the one before it has
\* been yielded to main.
get_item_1c_call(i) ==
  /\ smainpc = "collect"
  /\ spc[i] = "new"
  /\ svariant = "sec_00" => Len(sresult) = i - 1
  /\ SecIssue(i, <<>>, "index")
  /\ UNCHANGED notSec
  /\ UNCHANGED <<svariant, smainpc, ssem, sdoc, sresult>>

\* 2nd page: `assert (tenk_2nd := ...) is not None`, then the 3rd page is
\* requested.
index_fetched(i) ==
  /\ smainpc = "collect"
  /\ spc[i] = "index"
  /\ \E ok \in BOOLEAN, has_link \in BOOLEAN :
       IF ok
       THEN IF has_link
            THEN SecIssue(i, <<Ev("recv", "index")>>, next_hop("index"))
            ELSE SecFinish(i, <<Ev("recv", "index")>>,
                           Exc("AssertionError", "tenk_2nd is None", <<>>))
       ELSE /\ has_link = FALSE
            /\ SecFinish(i, <<>>, get_parser_error(svariant))
  /\ UNCHANGED notSec
  /\ UNCHANGED <<svariant, smainpc, ssem, sdoc, sresult>>

\* 3rd page: the `doc` query parameter of the resolved URL decides whether
\* the viewer hops follow.
filing_fetched(i) ==
  /\ smainpc = "collect"
  /\ spc[i] = "filing"
  /\ \E ok \in BOOLEAN, has_doc \in BOOLEAN, complete \in BOOLEAN, found \in BOOLEAN :
       IF ok
       THEN LET doc == IF svariant = "sec_01" THEN doc_sec_01(has_doc)
                       ELSE doc_sec_00(has_doc) IN
            /\ sdoc' = [sdoc EXCEPT ![i] = IF has_doc THEN "present" ELSE "absent"]
            /\ CASE doc = "IndexError" ->
                      /\ complete = FALSE /\ found = FALSE
                      /\ SecFinish(i, <<Ev("recv", "filing")>>,
                                   Exc("IndexError", "list index out of range", <<>>))
                 [] doc = "None" -> SecExtract(i, "filing", complete, found)
                 [] OTHER ->
                      /\ complete = FALSE /\ found = FALSE
                      /\ SecIssue(i, <<Ev("recv", "filing")>>, next_hop("filing"))
       ELSE /\ has_doc = FALSE /\ complete = FALSE /\ found = FALSE
            /\ SecFinish(i, <<>>, get_parser_error(svariant))
            /\ UNCHANGED sdoc
  /\ UNCHANGED notSec
  /\ UNCHANGED <<svariant, smainpc, ssem, sresult>>

\* MetaLinks.json came back (its content is discarded).
metalinks_fetched(i) ==
  /\ smainpc = "collect"
  /\ spc[i] = "metalinks"
  /\ \E ok \in BOOLEAN :
       IF ok
       THEN SecIssue(i, <<Ev("recv", "metalinks")>>, next_hop("metalinks"))
       ELSE SecFinish(i, <<>>, get_parser_error(svariant))
  /\ UNCHANGED notSec
  /\ UNCHANGED <<svariant, smainpc, ssem, sdoc, sresult>>

\* 4th page, /ixviewer/ix.html, came back (its content is discarded).
viewer_fetched(i) ==
  /\ smainpc = "collect"
  /\ spc[i] = "viewer"
  /\ \E ok \in BOOLEAN :
       IF ok
       THEN SecIssue(i, <<Ev("recv", "viewer")>>, next_hop("viewer"))
       ELSE SecFinish(i, <<>>, get_parser_error(svariant))
  /\ UNCHANGED notSec
  /\ UNCHANGED <<svariant, smainpc, ssem, sdoc, sresult>>

\* 5th page, the rendered document, came back: extraction runs on its tree.
rendered_fetched(i) ==
  /\ smainpc = "collect"
  /\ spc[i] = "rendered"
  /\ \E ok \in BOOLEAN, complete \in BOOLEAN, found \in BOOLEAN :
       IF ok
       THEN SecExtract(i, "rendered", complete, found)
       ELSE /\ complete = FALSE /\ found = FALSE
            /\ SecFinish(i, <<>>, get_parser_error(svariant))
  /\ UNCHANGED notSec
  /\ UNCHANGED <<svariant, smainpc, ssem, sdoc, sresult>>

\* get_10k: `result.append(await r)` (sec_01) / `yield from` (sec_00): there
\* is no handler, so an exception of the item leaves get_10k and main.
get_10k_collect ==
  /\ smainpc = "collect"
  /\ squeue /= <<>>
  /\ LET v == sout[Head(squeue)] IN
       IF IsExc(v)
       THEN /\ smainpc' = "raised_item"
            /\ ssem' = IF svariant = "sec_01" THEN ssem + 1 ELSE ssem
            /\ UNCHANGED sresult
       ELSE /\ sresult' = Append(sresult, v)
            /\ UNCHANGED <<smainpc, ssem>>
  /\ squeue' = Tail(squeue)
  /\ UNCHANGED notSec
  /\ UNCHANGED <<svariant, spc, sdoc, sout, slog>>

\* get_10k returns; main leaves its `async with` and writes the output.
sec_main_save ==
  /\ smainpc = "collect"
  /\ \A i \in Items : spc[i] \in {"returned", "raised"}
  /\ squeue = <<>>
  /\ smainpc' = "saved"
  /\ ssem' = IF svariant = "sec_01" THEN ssem + 1 ELSE ssem
  /\ UNCHANGED notSec
  /\ UNCHANGED <<svariant, spc, sdoc, sout, squeue, sresult, slog>>

SecNext ==
  \/ sec_main_enter
  \/ get_10k_listed
  \/ \E i \in Items : get_item_1c_call(i)
  \/ \E i \in Items : index_fetched(i)
  \/ \E i \in Items : filing_fetched(i)
  \/ \E i \in Items : metalinks_fetched(i)
  \/ \E i \in Items : viewer_fetched(i)
  \/ \E i \in Items : rendered_fetched(i)
  \/ get_10k_collect
  \/ sec_main_save

(***************************************************************************)
(* griffith.edu.au/main.py                                                 *)
(***************************************************************************)
Scholarships == 1..Len(gpc)

\* asyncio.Semaphore(5) in main
GriffithSemaphoreValue == 5

\* `retries=4` in the signature of get_scholarship
retries_default == 4

GrfStart ==
  /\ \E n \in 1..MaxScholarships, flaky \in SUBSET (1..MaxScholarships) :
       /\ flaky \subseteq 1..n
       /\ Cardinality(flaky) <= MaxFlaky
       /\ gsite = [n |-> n, flaky |-> flaky]
  /\ gmainpc = "start"
  /\ gsem = GriffithSemaphoreValue
  /\ ground = 0
  /\ ghtml = <<>>
  /\ gpc = <<>>
  /\ gretries = <<>>
  /\ gfetches = <<>>
  /\ gout = <<>>
  /\ gqueue = <<>>
  /\ gresults = <<>>

\* main enters its `async with` (the client and the semaphore, which main
\* itself acquires) and calls get_page.
grf_main_enter ==
  /\ gmainpc = "start"
  /\ gmainpc' = "get_page"
  /\ gsem' = gsem - 1
  /\ UNCHANGED notGrf
  /\ UNCHANGED <<gsite, ground, ghtml, gpc, gretries, gfetches, gout, gqueue,
                 gresults>>

\* get_page: the listing comes back; every scholarship starts with html None.
get_page_fetched ==
  /\ gmainpc = "get_page"
  /\ \E ok \in BOOLEAN :
       IF ok
       THEN /\ gmainpc' = "while"
            /\ ghtml' = [i \in 1..gsite.n |-> "None"]
            /\ gpc' = [i \in 1..gsite.n |-> "idle"]
            /\ gretries' = [i \in 1..gsite.n |-> retries_default]
            /\ gfetches' = [i \in 1..gsite.n |-> 0]
            /\ gout' = [i \in 1..gsite.n |-> None]
            /\ UNCHANGED gsem
       ELSE /\ gmainpc' = "raised"
            /\ gsem' = gsem + 1
            /\ UNCHANGED <<ghtml, gpc, gretries, gfetches, gout>>
  /\ UNCHANGED notGrf
  /\ UNCHANGED <<gsite, ground, gqueue, gresults>>

runs == {i \in Scholarships : ghtml[i] = "None"}

\* `while len(runs := [...]) > 0:` finds work: results = [], shuffle, sleep.
\* The loop has no counter of its own; `ground` counts its rounds up to
\* MaxRounds, which stands for "MaxRounds or more".
grf_round_begin ==
  /\ gmainpc = "while"
  /\ runs /= {}
  /\ ground' = IF ground < MaxRounds THEN ground + 1 ELSE ground
  /\ gresults' = <<>>
  /\ gmainpc' = "sleep"
  /\ UNCHANGED notGrf
  /\ UNCHANGED <<gsite, gsem, ghtml, gpc, gretries, gfetches, gout, gqueue>>

\* the sleep is over: tqdm.as_completed([get_scholarship(fetch, t) for t in runs])
grf_round_launch ==
  /\ gmainpc = "sleep"
  /\ gmainpc' = "collect"
  /\ gpc' = [i \in Scholarships |-> IF i \in runs THEN "new" ELSE gpc[i]]
  /\ gretries' = [i \in Scholarships |-> retries_default]
  /\ gfetches' = [i \in Scholarships |-> 0]
  /\ gout' = [i \in Scholarships |-> None]
  /\ UNCHANGED notGrf
  /\ UNCHANGED <<gsite, gsem, ground, ghtml, gqueue, gresults>>

\* get_scholarship starts and suspends in asyncio.sleep(random.uniform(*DLY)).
get_scholarship_call(i) ==
  /\ gmainpc = "collect"
  /\ gpc[i] = "new"
  /\ gpc' = [gpc EXCEPT ![i] = "sleep"]
  /\ UNCHANGED notGrf
  /\ UNCHANGED <<gsite, gmainpc, gsem, ground, ghtml, gretries, gfetches, gout,
                 gqueue, gresults>>

\* the sleep is over: `dox = await fetch(datum.url)` is issued.
get_scholarship_slept(i) ==
  /\ gmainpc = "collect"
  /\ gpc[i] = "sleep"
  /\ gpc' = [gpc EXCEPT ![i] = "fetch"]
  /\ gfetches' = [gfetches EXCEPT ![i] = @ + 1]
  /\ UNCHANGED notGrf
  /\ UNCHANGED <<gsite, gmainpc, gsem, ground, ghtml, gretries, gout, gqueue,
                 gresults>>

\* the fetch comes back: html is stored, or the except branch runs.
get_scholarship_fetched(i) ==
  /\ gmainpc = "collect"
  /\ gpc[i] = "fetch"
  /\ \E ok \in BOOLEAN :
       /\ ~ok => i \in gsite.flaky
       /\ IF ok
          THEN /\ ghtml' = [ghtml EXCEPT ![i] = "markdown"]
               /\ gpc' = [gpc EXCEPT ![i] = "returned"]
               /\ gqueue' = Append(gqueue, i)
               /\ UNCHANGED gout
          ELSE /\ UNCHANGED ghtml
               /\ IF gretries[i] > 0
                  THEN /\ gpc' = [gpc EXCEPT ![i] = "backoff"]
                       /\ UNCHANGED <<gout, gqueue>>
                  ELSE /\ gpc' = [gpc EXCEPT ![i] = "raised"]
                       /\ gout' = [gout EXCEPT ![i] = wrap_with_uri(fetch_error, i)]
                       /\ gqueue' = Append(gqueue, i)
  /\ UNCHANGED notGrf
  /\ UNCHANGED <<gsite, gmainpc, gsem, ground, gretries, gfetches, gresults>>

\* the backoff sleep is over: get_scholarship(fetch, datum, retries - 1)
\* starts and suspends in its own sleep.
get_scholarship_retry(i) ==
  /\ gmainpc = "collect"
  /\ gpc[i] = "backoff"
  /\ gpc' = [gpc EXCEPT ![i] = "sleep"]
  /\ gretries' = [gretries EXCEPT ![i] = @ - 1]
  /\ UNCHANGED notGrf
  /\ UNCHANGED <<gsite, gmainpc, gsem, ground, ghtml, gfetches, gout, gqueue,
                 gresults>>

\* main: `results.append(await r)` inside try / except Exception.
grf_collect ==
  /\ gmainpc = "collect"
  /\ gqueue /= <<>>
  /\ LET v == gout[Head(gqueue)] IN
       IF IsExc(v) /\ ~except_Exception(v.type)
       THEN /\ gmainpc' = "raised"
            /\ gsem' = gsem + 1
            /\ UNCHANGED gresults
       ELSE /\ gresults' = Append(gresults, v)
            /\ UNCHANGED <<gmainpc, gsem>>
  /\ gqueue' = Tail(gqueue)
  /\ UNCHANGED notGrf
  /\ UNCHANGED <<gsite, ground, ghtml, gpc, gretries, gfetches, gout>>

\* as_completed is exhausted: back to the `while` test.
grf_round_end ==
  /\ gmainpc = "collect"
  /\ \A i \in Scholarships : gpc[i] \in {"idle", "returned", "raised"}
  /\ gqueue = <<>>
  /\ gmainpc' = "while"
  /\ UNCHANGED notGrf
  /\ UNCHANGED <<gsite, gsem, ground, ghtml, gpc, gretries, gfetches, gout,
                 gqueue, gresults>>

\* the `while` test fails: scholarships.save_to_json(output), main leaves
\* its `async with`.
grf_main_save ==
  /\ gmainpc = "while"
  /\ runs = {}
  /\ gmainpc' = "saved"
  /\ gsem' = gsem + 1
  /\ UNCHANGED notGrf
  /\ UNCHANGED <<gsite, ground, ghtml, gpc, gretries, gfetches, gout, gqueue,
                 gresults>>

GrfNext ==
  \/ grf_main_enter
  \/ get_page_fetched
  \/ grf_round_begin
  \/ grf_round_launch
  \/ \E i \in Scholarships : get_scholarship_call(i)
  \/ \E i \in Scholarships : get_scholarship_slept(i)
  \/ \E i \in Scholarships : get_scholarship_fetched(i)
  \/ \E i \in Scholarships : get_scholarship_retry(i)
  \/ grf_collect
  \/ grf_round_end
  \/ grf_main_save

(***************************************************************************)
(* sec.gov: parsed documents (lxml element trees) and node lists           *)
(*                                                                         *)
(* Element 0 is the root (<html>/<body>); elements 1..Len(par) are numbered*)
(* in document order and par[n] is the parent of n.  An element that       *)
(* drop() took out of the tree keeps its subtree and has par[n] = n.       *)
(***************************************************************************)
RECURSIVE IsDescendant(_, _, _)
\* `n in o.iterdescendants()`
IsDescendant(par, n, o) ==
  /\ n /= 0
  /\ par[n] /= n
  /\ (par[n] = o \/ IsDescendant(par, par[n], o))

\* The trees a parser can build: numbering is document order, so the parent
\* of n is the element before it or one of that element's ancestors.
Trees(n) ==
  {par \in [1..n -> 0..n] :
     \A i \in 1..n :
       /\ par[i] < i
       /\ i > 1 => (par[i] = i - 1 \/ IsDescendant(par, i - 1, par[i]))}

RECURSIVE Ascending(_)
\* the elements of a set of nodes in document order (an XPath result)
Ascending(S) ==
  IF S = {} THEN <<>>
  ELSE LET m == CHOOSE x \in S : \A y \in S : y <= x
       IN Append(Ascending(S \ {m}), m)

\* result.pop() / x.pop() on an empty list
IndexError == Exc("IndexError", "pop from empty list", <<>>)

\* not_decendants(sl): the last candidate that no other candidate contains
not_decendants_last(par, sl) ==
  IF sl = <<>> THEN [raised |-> IndexError, node |-> 0]
  ELSE [raised |-> None, node |-> Last(sl)]
not_decendants(par, sl) ==
  LET keep(s) == ~ \E k \in 1..Len(sl) : IsDescendant(par, s, sl[k])
      result == SelectSeq(sl, keep)
  IN IF result = <<>> THEN [raised |-> IndexError, node |-> 0]
     ELSE [raised |-> None, node |-> Last(result)]

\* list.remove(n): the list without the first element equal to n
list_remove(nodes, n) ==
  LET i == CHOOSE k \in 1..Len(nodes) :
             nodes[k] = n /\ \A j \in 1..(k - 1) : nodes[j] /= n
  IN SubSeq(nodes, 1, i - 1) \o SubSeq(nodes, i + 1, Len(nodes))

RECURSIVE remove_decendants_loop(_, _, _)
\* `for n in nodes: if any(n in o.iterdescendants() for o in nodes):
\* nodes.remove(n)`: the iterator of the list reads position i of the list as
\* it is now and then moves to i + 1, whether or not the list got shorter.
remove_decendants_loop(par, nodes, i) ==
  IF i > Len(nodes) THEN nodes
  ELSE IF \E k \in 1..Len(nodes) : IsDescendant(par, nodes[i], nodes[k])
       THEN remove_decendants_loop(par, list_remove(nodes, nodes[i]), i + 1)
       ELSE remove_decendants_loop(par, nodes, i + 1)

\* sec_00.remove_decendants(nodes); the list is changed in place and returned
remove_decendants(par, nodes) == remove_decendants_loop(par, nodes, 1)

\* An element without text of its own and without attributes.
plain == [tag |-> "div", text |-> "", id |-> FALSE]

\* A tree and a candidate list taken from it by an XPath query: distinct
\* elements in document order.
ListStart ==
  /\ \E n \in 0..MaxNodes :
       /\ tparent \in Trees(n)
       /\ tnode = [i \in 1..n |-> plain]
       /\ fin \in {Ascending(S) : S \in SUBSET (0..n)}
  /\ fpc = "input"
  /\ fout = None

ListOut(raised, node, arg, once, nodes) ==
  [raised |-> raised, node |-> node, arg |-> arg, once |-> once,
   nodes |-> nodes]

\* end_target = not_decendants(end_targets)
call_not_decendants ==
  /\ fpc = "input"
  /\ fpc' = "not_decendants"
  /\ LET r == not_decendants(tparent, fin)
     IN fout' = ListOut(r.raised, r.node, fin, <<>>, <<>>)
  /\ UNCHANGED <<tparent, tnode, fin>>
  /\ UNCHANGED notFn

\* targets = remove_decendants(targets)
call_remove_decendants ==
  /\ fpc = "input"
  /\ fpc' = "remove_decendants"
  /\ LET r == remove_decendants(tparent, fin)
     IN /\ fout' = ListOut(None, 0, fin, r, r)
        /\ fin' = r
  /\ UNCHANGED <<tparent, tnode>>
  /\ UNCHANGED notFn

\* remove_decendants applied to the list it returned
call_remove_decendants_again ==
  /\ fpc = "remove_decendants"
  /\ fpc' = "remove_decendants_twice"
  /\ LET r == remove_decendants(tparent, fin)
     IN /\ fout' = ListOut(None, 0, fout.arg, fout.once, r)
        /\ fin' = r
  /\ UNCHANGED <<tparent, tnode>>
  /\ UNCHANGED notFn

ListNext ==
  \/ call_not_decendants
  \/ call_remove_decendants
  \/ call_remove_decendants_again

(***************************************************************************)
(* sec.gov/sec_01.py parse_method_1 and sec_02.py _parse_item_1c: the      *)
(* Item 1C locator.  The text of an element is the sequence of the text    *)
(* runs of the element and of its descendants in document order; every run *)
(* is whitespace-normal, so normalize-space(.) and re.sub(r"\s+", " ", m)   *)
(* leave it as it is.  The documents hold <div> and <hr> elements; they     *)
(* hold no <a> and no <table>, the other elements the locator drops.        *)
(***************************************************************************)
RECURSIVE text_from(_, _, _, _)
text_from(par, nd, n, j) ==
  IF j > Len(par) THEN <<>>
  ELSE (IF (j = n \/ IsDescendant(par, j, n)) /\ nd[j].text /= ""
        THEN <<nd[j].text>> ELSE <<>>) \o text_from(par, nd, n, j + 1)

\* element.text_content() / the XPath string value `.`
text_content(par, nd, n) == text_from(par, nd, n, 1)

\* What pattern.findall yields on one text run.  end_p of sec_01 has one
\* capturing group, (item\s+2\.?), so findall yields the text of that group:
\* the empty string for a match of the alternative `item\s+1d`.  end_p of
\* sec_02 has no group and findall yields the matched text.
matches(pattern, run) ==
  CASE pattern = "start_p" /\ run = "Item 1C" -> <<"Item 1C">>
    [] pattern = "end_p sec_01" /\ run = "Item 1D" -> <<"">>
    [] pattern = "end_p sec_01" /\ run = "Item 2. Properties" -> <<"Item 2.">>
    [] pattern = "end_p sec_02" /\ run = "Item 1D" -> <<"Item 1D">>
    [] pattern = "end_p sec_02" /\ run = "Item 2. Properties" -> <<"Item 2">>
    [] OTHER -> <<>>

RECURSIVE findall(_, _)
findall(pattern, text) ==
  IF text = <<>> THEN <<>>
  ELSE matches(pattern, Head(text)) \o findall(pattern, Tail(text))

\* starts-with(normalize-space(.), '{marker}')
starts_with(text, marker) ==
  \/ marker = ""
  \/ /\ text /= <<>>
     /\ \/ Head(text) = marker
        \/ marker \in {"Item 2", "Item 2."} /\ Head(text) = "Item 2. Properties"

\* str.isdigit() of a text run
isdigit(run) == run = "9"

\* `if len(start_m) == 0 or len(end_m) == 0: return None, False`
no_match_start_only(start_m, end_m) == Len(start_m) = 0
no_match(start_m, end_m) == Len(start_m) = 0 \/ Len(end_m) = 0

\* ./preceding-sibling::* | self::*
preceding_sibling_or_self(par, n) ==
  IF n = 0 \/ par[n] = n THEN <<>>
  ELSE Ascending({j \in 1..n : par[j] = par[n]})
\* ./preceding-sibling::*  (an element out of the tree has none)
preceding_sibling(par, n) ==
  IF n = 0 \/ par[n] = n THEN <<>>
  ELSE Ascending({j \in 1..(n - 1) : par[j] = par[n]})

\* self::* | ./preceding-sibling::*
self_or_preceding_sibling(par, n) == Append(preceding_sibling(par, n), n)

RECURSIVE drop_hr(_, _, _)
\* `for hr in sel.xpath("//hr")`: drop the sibling just before the rule when
\* its first text node is a number, then drop the rule.
drop_hr(par, nd, h) ==
  IF h > Len(par) THEN par
  ELSE IF nd[h].tag /= "hr" THEN drop_hr(par, nd, h + 1)
  ELSE LET sibs == preceding_sibling(par, h)
           p == IF sibs = <<>> THEN 0 ELSE Last(sibs)
           txt == IF p = 0 THEN <<>> ELSE text_content(par, nd, p)
           par1 == IF txt /= <<>> /\ isdigit(Head(txt))
                   THEN [par EXCEPT ![p] = p] ELSE par
       IN drop_hr([par1 EXCEPT ![h] = h], nd, h + 1)

\* sec_01: //body//*[starts-with(...)] | //body/*[.//*[starts-with(...)]]
end_targets_01(par, nd, end) ==
  Ascending(
    {n \in 1..Len(par) : starts_with(text_content(par, nd, n), end)}
    \cup
    {n \in 1..Len(par) :
       /\ par[n] = 0
       /\ \E j \in 1..Len(par) :
            IsDescendant(par, j, n) /\ starts_with(text_content(par, nd, j), end)})

\* sec_02: //*[starts-with(normalize-space(.), '{end}')]
end_targets_02(par, nd, end) ==
  Ascending({n \in 0..Len(par) : starts_with(text_content(par, nd, n), end)})

\* t.xpath(f".//*[starts-with(normalize-space(.), '{start}')]"): the
\* descendants of t, not t itself
found_1c(par, nd, t, start) ==
  \E j \in 1..Len(par) :
    IsDescendant(par, j, t) /\ starts_with(text_content(par, nd, j), start)

\* The loop over the reversed targets: how many targets, counted from the
\* end boundary backwards, `targets[cut_off:]` keeps; 0 stands for
\* cut_off = None.
cut_off(par, nd, targets, start) ==
  LET hits == {k \in 1..Len(targets) : found_1c(par, nd, targets[k], start)}
  IN IF hits = {} THEN 0
     ELSE Len(targets) + 1 - (CHOOSE k \in hits : \A h \in hits : h <= k)

\* targets[cut_off:]
slice_from(targets, cut) ==
  IF cut = 0 THEN targets
  ELSE SubSeq(targets, Len(targets) + 1 - cut, Len(targets))

RECURSIVE getall(_, _, _)
\* "\n".join(data.getall()) through markdownify: the text of the nodes
getall(par, nd, data) ==
  IF data = <<>> THEN <<>>
  ELSE text_content(par, nd, Head(data)) \o getall(par, nd, Tail(data))

placeholder == <<"[red] !! REGEX NOT FOUND !! [/red]">>

\* re.search(rf"({start_m}.*){end_m}", data, re.I | re.S): group 1 of the
\* leftmost match, `.*` greedy; the placeholder when there is no match
regex_cut(data, start_m, end_m) ==
  LET ends(a) == {b \in (a + 1)..Len(data) : starts_with(<<data[b]>>, end_m)}
      A == {a \in 1..Len(data) :
              data[a] = start_m /\ (end_m = "" \/ ends(a) /= {})}
  IN IF A = {} THEN placeholder
     ELSE LET a == CHOOSE x \in A : \A y \in A : x <= y
              b == IF end_m = "" THEN Len(data) + 1
                   ELSE CHOOSE x \in ends(a) : \A y \in ends(a) : y <= x
          IN SubSeq(data, a, b - 1)

\* What a call of the locator leaves: the returned pair (or the exception),
\* and the values of its local variables where it stopped.
LocOut(raised, text, found, stage, start, end, end_target, targets, cut, data, tree) ==
  [raised |-> raised, text |-> text, found |-> found, stage |-> stage,
   start |-> start, end |-> end, end_target |-> end_target,
   targets |-> targets, cut |-> cut, data |-> data, tree |-> tree]

\* `return None, False` at the named place; text <<>> stands for None
Absent(stage, start, end, end_target, tree) ==
  LocOut(None, <<>>, FALSE, stage, start, end, end_target, <<>>, 0, <<>>, tree)

\* The body shared by sec_01.parse_method_1 and sec_02._parse_item_1c; the
\* two differ in end_p, in the query for end_targets, in `self::*` of
\* targets, and in the regex cut of sec_01.
locate(variant, par, nd) ==
  LET text == text_content(par, nd, 0)
      start_m == findall("start_p", text)
      end_m == findall(IF variant = "sec_01" THEN "end_p sec_01"
                       ELSE "end_p sec_02", text)
  IN
  IF no_match(start_m, end_m) THEN Absent("no match", "", "", 0, par)
  ELSE IF start_m = <<>> \/ end_m = <<>>
  THEN LocOut(IndexError, <<>>, FALSE, "pop", "", "", 0, <<>>, 0, <<>>, par)
  ELSE
  LET start == Last(start_m)
      end == Last(end_m)
      end_targets == IF variant = "sec_01" THEN end_targets_01(par, nd, end)
                     ELSE end_targets_02(par, nd, end)
  IN
  IF Len(end_targets) = 0 THEN Absent("no end_targets", start, end, 0, par)
  ELSE
  LET par1 == drop_hr(par, nd, 1)
      chosen == not_decendants(par1, end_targets)
  IN
  IF chosen.raised /= None
  THEN LocOut(chosen.raised, <<>>, FALSE, "not_decendants", start, end, 0,
              <<>>, 0, <<>>, par)
  ELSE
  LET end_target == chosen.node
      targets == IF variant = "sec_01"
                 THEN self_or_preceding_sibling(par1, end_target)
                 ELSE preceding_sibling(par1, end_target)
  IN
  IF Len(targets) = 0 THEN Absent("no targets", start, end, end_target, par)
  ELSE
  LET cut == cut_off(par1, nd, targets, start)
      data == slice_from(targets, cut)
      rendered == getall(par1, nd, data)
  IN LocOut(None,
            IF variant = "sec_01" THEN regex_cut(rendered, start, end)
            ELSE rendered,
            TRUE, "done", start, end, end_target, targets, cut, data, par)

\* sec_01.parse_method_1(sel)
parse_method_1(par, nd) == locate("sec_01", par, nd)

\* sec_02.EDGARSearch._parse_item_1c(sel)
parse_item_1c(par, nd) == locate("sec_02", par, nd)

\* The elements of the documents: a <div> with no text of its own, with a
\* heading or with other text (none of it a page number), and a horizontal
\* rule.
Elements ==
  {[tag |-> "div", text |-> t, id |-> FALSE] :
     t \in {"", "Item 1C", "Item 1D", "Item 2. Properties", "x"}}
  \cup {[tag |-> "hr", text |-> "", id |-> FALSE]}

\* Selector(text=html): any document of at most MaxNodes elements; <hr> is a
\* void element.
LocStart ==
  /\ \E n \in 0..MaxNodes :
       /\ tparent \in Trees(n)
       /\ tnode \in [1..n -> Elements]
       /\ \A i \in 1..n :
            IF tparent[i] = 0 THEN TRUE ELSE tnode[tparent[i]].tag /= "hr"
  /\ fin = <<>>
  /\ fpc = "input"
  /\ fout = None

\* The locator runs on the document; the elements it drops are gone from
\* the caller's tree.
call_parse_method_1 ==
  /\ fpc = "input"
  /\ fpc' = "parse_method_1"
  /\ fout' = parse_method_1(tparent, tnode)
  /\ tparent' = IF fout'.stage \in {"no match", "pop", "no end_targets"}
                THEN tparent ELSE drop_hr(tparent, tnode, 1)
  /\ UNCHANGED <<tnode, fin>>
  /\ UNCHANGED notFn

call_parse_item_1c ==
  /\ fpc = "input"
  /\ fpc' = "_parse_item_1c"
  /\ fout' = parse_item_1c(tparent, tnode)
  /\ tparent' = IF fout'.stage \in {"no match", "pop", "no end_targets"}
                THEN tparent ELSE drop_hr(tparent, tnode, 1)
  /\ UNCHANGED <<tnode, fin>>
  /\ UNCHANGED notFn

LocNext ==
  \/ call_parse_method_1
  \/ call_parse_item_1c

(***************************************************************************)
(* sec.gov/sec_00.py parse_method_2: the Item 1C section between the two   *)
(* nearest elements that carry an id.                                      *)
(***************************************************************************)
\* [.//@id]: the element or one of its descendants has an id attribute
has_id(par, nd, n) ==
  \E j \in 1..Len(par) : (j = n \/ IsDescendant(par, j, n)) /\ nd[j].id

\* target.xpath(f"preceding{pred}::*[.//@id]"), document order; the
\* preceding axis leaves out the ancestors of the element
preceding(par, nd, pred, n) ==
  Ascending({j \in 1..(n - 1) :
               /\ has_id(par, nd, j)
               /\ IF pred = "-sibling" THEN par[j] = par[n]
                  ELSE ~ IsDescendant(par, n, j)})

\* xpath(f"following{pred}::*"), document order; the following axis leaves
\* out the descendants of the element
following(par, pred, n) ==
  Ascending({j \in (n + 1)..Len(par) :
               IF pred = "-sibling" THEN par[j] = par[n]
               ELSE ~ IsDescendant(par, j, n)})

\* target.xpath(f"following{pred}::*[.//@id]")
following_with_id(par, nd, pred, n) ==
  SelectSeq(following(par, pred, n), LAMBDA j : has_id(par, nd, j))

\* (xpath(...) or [None]).pop() and .pop(0); 0 stands for None
pop_or_None(nodes) == IF nodes = <<>> THEN 0 ELSE Last(nodes)
pop0_or_None(nodes) == IF nodes = <<>> THEN 0 ELSE Head(nodes)

\* nodes.index(stop) when stop is not in the list
ValueError == Exc("ValueError", "x not in list", <<>>)

\* t.isspace(), len(t), t.isdigit() on the text of a node
kept_text(text) == text /= <<>> /\ ~ (Len(text) = 1 /\ isdigit(Head(text)))

RECURSIVE text_of_nodes(_, _, _)
\* [t for d in data if ...]: the texts of the nodes that are kept
text_of_nodes(par, nd, data) ==
  IF data = <<>> THEN <<>>
  ELSE (IF kept_text(text_content(par, nd, Head(data)))
        THEN text_content(par, nd, Head(data)) ELSE <<>>)
       \o text_of_nodes(par, nd, Tail(data))

M2Out(raised, text, found, stage, target, start, stop, pred, data) ==
  [raised |-> raised, text |-> text, found |-> found, stage |-> stage,
   target |-> target, start |-> start, stop |-> stop, pred |-> pred,
   data |-> data]

\* the loop with preds = ["-sibling", ""]: the wider axis on the first turn
boundaries_wider_first(par, nd, target) ==
  LET start0 == IF nd[target].id THEN target ELSE 0
  IN [start |-> IF start0 = 0
                THEN pop_or_None(preceding(par, nd, "", target))
                ELSE start0,
      stop |-> pop0_or_None(following_with_id(par, nd, "", target)),
      pred |-> ""]

\* The `while` loop over preds = ["", "-sibling"]: preds.pop() gives the
\* sibling axis first; a second turn, on the wider axis, is taken when start
\* or stop is still None, and it assigns stop anew.
boundaries(par, nd, target) ==
  LET start0 == IF nd[target].id THEN target ELSE 0
      start1 == IF start0 = 0
                THEN pop_or_None(preceding(par, nd, "-sibling", target))
                ELSE start0
      stop1 == pop0_or_None(following_with_id(par, nd, "-sibling", target))
  IN IF start1 /= 0 /\ stop1 /= 0
     THEN [start |-> start1, stop |-> stop1, pred |-> "-sibling"]
     ELSE [start |-> IF start1 = 0
                     THEN pop_or_None(preceding(par, nd, "", target))
                     ELSE start1,
           stop |-> pop0_or_None(following_with_id(par, nd, "", target)),
           pred |-> ""]

\* sec_00.parse_method_2(hpr)
parse_method_2(par, nd) ==
  LET targets0 == Ascending({n \in 1..Len(par) :
                    starts_with(text_content(par, nd, n), "Item 1C")})
  IN
  IF Len(targets0) = 0
  THEN M2Out(None, <<>>, FALSE, "no targets", 0, 0, 0, "", <<>>)
  ELSE
  LET targets == remove_decendants(par, targets0)
      target == Last(targets)
      b == boundaries(par, nd, target)
  IN
  IF b.start = 0 \/ b.stop = 0
  THEN M2Out(None, <<>>, FALSE, "no boundary", target, b.start, b.stop,
             b.pred, <<>>)
  ELSE
  LET nodes == IF b.start = target
               THEN <<b.start>> \o following(par, b.pred, b.start)
               ELSE following(par, b.pred, b.start)
      idx == {k \in 1..Len(nodes) : nodes[k] = b.stop}
  IN
  IF idx = {}
  THEN M2Out(ValueError, <<>>, FALSE, "index", target, b.start, b.stop,
             b.pred, <<>>)
  ELSE
  LET data == remove_decendants(par,
                SubSeq(nodes, 1, (CHOOSE k \in idx : TRUE) - 1))
  IN
  IF Len(data) = 0
  THEN M2Out(None, <<>>, FALSE, "no data", target, b.start, b.stop, b.pred,
             data)
  ELSE M2Out(None, text_of_nodes(par, nd, data), TRUE, "done", target,
             b.start, b.stop, b.pred, data)

\* The elements of the documents: <div>/<p> with a text of their own, with
\* or without an id attribute.
Elements2 ==
  {[tag |-> "div", text |-> t, id |-> i] :
     t \in {"x", "Item 1C"}, i \in BOOLEAN}

\* fromstring(hpr.html): any document of at most MaxNodes elements
M2Start ==
  /\ \E n \in 0..MaxNodes :
       /\ tparent \in Trees(n)
       /\ tnode \in [1..n -> Elements2]
  /\ fin = <<>>
  /\ fpc = "input"
  /\ fout = None

call_parse_method_2 ==
  /\ fpc = "input"
  /\ fpc' = "parse_method_2"
  /\ fout' = parse_method_2(tparent, tnode)
  /\ UNCHANGED <<tparent, tnode, fin>>
  /\ UNCHANGED notFn

M2Next == call_parse_method_2

(***************************************************************************)
(* sec.gov/sec_01.py parse_entity and the end of get_item_1c: the entity   *)
(* fields of the cover page and the construction of the SECCompany record. *)
(* The input says how many nodes carry each repeatable field and which of  *)
(* the other fields have a node; every node has text.                      *)
(***************************************************************************)
comk ==
  <<"EntityFileNumber", "EntityRegistrantName",
    "EntityIncorporationStateCountryCode", "EntityTaxIdentificationNumber">>

seck ==
  <<"EntityAddressCityOrTown", "EntityAddressStateOrProvince",
    "EntityAddressCountry", "EntityAddressPostalZipCode", "CityAreaCode",
    "LocalPhoneNumber", "TradingSymbol", "SecurityExchangeName">>

\* fields of the dataclass SECCompany that have no default
SECCompany_required ==
  {"Companies", "EntityAddressAddressLines", "EntityAddressCityOrTown",
   "EntityAddressPostalZipCode", "CityAreaCode", "LocalPhoneNumber"}

\* the k-th node with name="dei:{dei}" in document order, and its text
Node(dei, k) == [name |-> dei, k |-> k]

\* the sentinel "N/A"
NA == [name |-> "N/A", k |-> 0]

\* sel.css(f'[name="dei:{dei}"]')
css(count, dei) == [k \in 1..count[dei] |-> Node(dei, k)]

\* list(filter(None, lists)): the empty SelectorLists are dropped
filter_None(lists) == SelectSeq(lists, LAMBDA l : l /= <<>>)

\* list(zip(*lists)): as many tuples as the shortest list has elements
zip(lists) ==
  IF lists = <<>> THEN <<>>
  ELSE LET n == CHOOSE m \in {Len(lists[j]) : j \in 1..Len(lists)} :
                  \A j \in 1..Len(lists) : m <= Len(lists[j])
       IN [k \in 1..n |-> [j \in 1..Len(lists) |-> lists[j][k]]]

\* {k: text(d) for d in c if (k := _clean(d))}
record_of(c) ==
  [f \in {c[j].name : j \in 1..Len(c)} |->
     LET j == CHOOSE i \in 1..Len(c) : c[i].name = f IN c[j]]

\* c_i.update(dict.fromkeys(set(comk).difference(c_i.keys()), "N/A"))
update_NA_none(c_i) == c_i
update_NA(c_i) ==
  [f \in (DOMAIN c_i) \cup {comk[j] : j \in 1..Len(comk)} |->
     IF f \in DOMAIN c_i THEN c_i[f] ELSE NA]

\* parse_entity(sel): (sec_company_info, company_info)
parse_entity(input) ==
  LET lists == filter_None([j \in 1..Len(comk) |-> css(input.count, comk[j])])
      tuples == zip(lists)
      company_info == [k \in 1..Len(tuples) |-> update_NA(record_of(tuples[k]))]
      found_seck == {seck[j] : j \in 1..Len(seck)} \cap input.present
      sec_company_info ==
        [f \in {"EntityAddressAddressLines"} \cup found_seck |-> Node(f, 1)]
  IN [sec_company_info |-> sec_company_info, company_info |-> company_info]

\* Company(**c) / SECCompany(Companies=..., **sec_info, item_1c=...): a
\* TypeError when a field without default is not among the keywords
missing_required(sec_info) ==
  SECCompany_required \ (DOMAIN sec_info \cup {"Companies"})

\* get_item_1c from `try:` on: parse_entity, the loop over the locator
\* methods (found: what the last method returned), the record; any
\* exception is raised again after debuging(selx).
get_item_1c_try(input, found) ==
  LET e == parse_entity(input)
      item_1c == IF found THEN "text" ELSE "None"
  IN IF missing_required(e.sec_company_info) /= {}
     THEN [raised |-> Exc("TypeError", "missing required argument", <<>>),
           found |-> found, item_1c |-> "None",
           fields |-> e.sec_company_info, Companies |-> <<>>]
     ELSE [raised |-> None, found |-> found, item_1c |-> item_1c,
           fields |-> e.sec_company_info, Companies |-> e.company_info]

\* A cover page: up to MaxSub nodes per repeatable field, any subset of the
\* other fields.
EntStart ==
  /\ tparent = <<>>
  /\ tnode = <<>>
  /\ \E count \in [{comk[j] : j \in 1..Len(comk)} -> 0..MaxSub],
        present \in SUBSET {seck[j] : j \in 1..Len(seck)} :
       fin = [count |-> count, present |-> present]
  /\ fpc = "input"
  /\ fout = None

call_parse_entity ==
  /\ fpc = "input"
  /\ fpc' = "parse_entity"
  /\ fout' = parse_entity(fin)
  /\ UNCHANGED <<tparent, tnode, fin>>
  /\ UNCHANGED notFn

call_get_item_1c_try ==
  /\ fpc = "input"
  /\ fpc' = "get_item_1c"
  /\ \E found \in BOOLEAN : fout' = get_item_1c_try(fin, found)
  /\ UNCHANGED <<tparent, tnode, fin>>
  /\ UNCHANGED notFn

EntNext ==
  \/ call_parse_entity
  \/ call_get_item_1c_try

(***************************************************************************)
(* journals_scraper/main.py : _scrape_articles under one _get_journals     *)
(* (palgrave, sciencedirect, wiley: one fetch per article of the listing)  *)
(***************************************************************************)
Articles == 1..Len(apc)

\* the scraper classes whose _scrapes ends in self._scrape_articles
ArticleKinds == {"palgrave", "sciencedirect", "wiley"}

\* the dict a _get_article returns
article_dict == [type |-> "dict"]

\* What _get_article gives when its fetch raised `e`: wiley wraps its body in
\* try / except Exception and only prints, so the coroutine returns None; in
\* palgrave and sciencedirect the exception leaves the coroutine.
get_article_failed(kind, e) == IF kind = "wiley" THEN None ELSE e

\* Journal.from_dict(d): cls(**d)
from_dict(d) ==
  IF d.type = "dict" THEN [type |-> "Journal"]
  ELSE Exc("TypeError", "argument after ** must be a mapping", <<>>)

\* Journals(start_uri, [Journal.from_dict(d) for d in data])
journals_of(start_uri, data) ==
  IF \E k \in 1..Len(data) : from_dict(data[k]).type /= "Journal"
  THEN from_dict(data[CHOOSE k \in 1..Len(data) :
                        /\ from_dict(data[k]).type /= "Journal"
                        /\ \A j \in 1..(k - 1) : from_dict(data[j]).type = "Journal"])
  ELSE Journals(start_uri, Len(data))

\* _get_journals has fetched start_uri, _scrapes has fetched the listing and
\* calls _scrape_articles(_get_article, items).
ArtStart ==
  /\ akind \in ArticleKinds
  /\ \E n \in 0..MaxArticles : apc = [i \in 1..n |-> "new"]
  /\ aout = [i \in Articles |-> None]
  /\ aqueue = <<>>
  /\ aresult = <<>>
  /\ ajpc = "scrape_articles"
  /\ ajout = None

\* get_article_coro(item) runs to its first suspension: the fetch in _get_url.
get_article_call(i) ==
  /\ ajpc = "scrape_articles"
  /\ apc[i] = "new"
  /\ apc' = [apc EXCEPT ![i] = "fetch"]
  /\ UNCHANGED notArt
  /\ UNCHANGED <<akind, aout, aqueue, aresult, ajpc, ajout>>

\* The fetch of the article comes back; the coroutine ends and as_completed
\* queues it. Every task has run to its first suspension by then.
get_article_fetched(i) ==
  /\ ajpc = "scrape_articles"
  /\ apc[i] = "fetch"
  /\ \A k \in Articles : apc[k] /= "new"
  /\ \E ok \in BOOLEAN :
       LET v == IF ok THEN article_dict
                ELSE get_article_failed(akind, fetch_error) IN
         /\ apc' = [apc EXCEPT ![i] =
                      IF v.type \in {"dict", "None"} THEN "returned" ELSE "raised"]
         /\ aout' = [aout EXCEPT ![i] = v]
         /\ aqueue' = Append(aqueue, i)
  /\ UNCHANGED notArt
  /\ UNCHANGED <<akind, aresult, ajpc, ajout>>

\* _scrape_articles: `t = await r; result.append(t)` inside try, and
\* `except Exception as e: result.append(e)`.
scrape_articles_collect ==
  /\ ajpc = "scrape_articles"
  /\ aqueue /= <<>>
  /\ LET v == aout[Head(aqueue)] IN
       IF v.type \in {"dict", "None"} \/ except_Exception(v.type)
       THEN /\ aresult' = Append(aresult, v)
            /\ UNCHANGED <<ajpc, ajout>>
       ELSE /\ ajpc' = "raised"
            /\ ajout' = v
            /\ UNCHANGED aresult
  /\ aqueue' = Tail(aqueue)
  /\ UNCHANGED notArt
  /\ UNCHANGED <<akind, apc, aout>>

\* as_completed is exhausted: _scrape_articles returns `result`, _scrapes
\* returns it, and _get_journals builds its Journals from it, outside its try.
get_journals_build ==
  /\ ajpc = "scrape_articles"
  /\ \A i \in Articles : apc[i] \in {"returned", "raised"}
  /\ aqueue = <<>>
  /\ ajout' = journals_of(1, aresult)
  /\ ajpc' = IF journals_of(1, aresult).type = "Journals" THEN "returned" ELSE "raised"
  /\ UNCHANGED notArt
  /\ UNCHANGED <<akind, apc, aout, aqueue, aresult>>

ArtNext ==
  \/ \E i \in Articles : get_article_call(i)
  \/ \E i \in Articles : get_article_fetched(i)
  \/ scrape_articles_collect
  \/ get_journals_build

(***************************************************************************)
(* The shared session: sec_01.main and journals_scraper main               *)
(***************************************************************************)
\* journals main: `for k in kookies: _ = k.pop("expires"); session.cookies.set(**k)`
\* stops with KeyError at the first cookie without the key.
first_without_expires(ks) ==
  IF \A i \in 1..Len(ks) : ks[i].expires THEN Len(ks) + 1
  ELSE CHOOSE i \in 1..Len(ks) :
         /\ ~ks[i].expires
         /\ \A j \in 1..(i - 1) : ks[j].expires

pop_and_set_cookies(s, ks) ==
  [raised |-> first_without_expires(ks) <= Len(ks),
   session |-> set_cookies(s, SubSeq(ks, 1, first_without_expires(ks) - 1))]

SesStart ==
  /\ kookies \in Kookies
  /\ session = no_session

\* main(config, input, kookies, output) has been called
MainStart ==
  /\ \E n \in 0..MaxDomains :
       cinput \in [1..n -> [domain : Domains, n : 1..MaxUris]]
  /\ cpc = "main"
  /\ cidx = 0
  /\ cresult = <<>>

\* journals main up to its first suspension: the session, the cookies,
\* Crawler(session, input) and the call of crawler.run().
journals_main_enter ==
  /\ cpc = "main"
  /\ session' = pop_and_set_cookies(new_session, kookies).session
  /\ cpc' = IF pop_and_set_cookies(new_session, kookies).raised
            THEN "main_raised" ELSE "loop"
  /\ UNCHANGED <<kookies, cinput, cidx, cresult>>
  /\ UNCHANGED notSes

\* crawler.run() is back: main leaves its `async with` and dumps the
\* collections.
journals_main_save ==
  /\ cpc = "returned"
  /\ session /= no_session
  /\ cpc' = "saved"
  /\ UNCHANGED <<kookies, session, cinput, cidx, cresult>>
  /\ UNCHANGED notSes

\* one of the two mains runs
SessionNext ==
  \/ SecNext
  \/ journals_main_enter
  \/ CrwNext
  \/ journals_main_save

(***************************************************************************)
(* Specifications: one program runs, the others are not started.           *)
(***************************************************************************)
JrnIdle ==
  /\ jkind = "JournalScraper"
  /\ start_uris = <<>>
  /\ jrunpc = "idle"
  /\ jpc = <<>>
  /\ jtries = <<>>
  /\ jleft = <<>>
  /\ jcurrent_url = NoUrl
  /\ jheaders = <<>>
  /\ jout = <<>>
  /\ jqueue = <<>>
  /\ jresults = <<>>
  /\ jlog = <<>>

SecIdle ==
  /\ svariant = "sec_01"
  /\ smainpc = "off"
  /\ ssem = SemaphoreValue
  /\ spc = <<>>
  /\ sdoc = <<>>
  /\ sout = <<>>
  /\ squeue = <<>>
  /\ sresult = <<>>
  /\ slog = <<>>

GrfIdle ==
  /\ gsite = [n |-> 0, flaky |-> {}]
  /\ gmainpc = "off"
  /\ gsem = GriffithSemaphoreValue
  /\ ground = 0
  /\ ghtml = <<>>
  /\ gpc = <<>>
  /\ gretries = <<>>
  /\ gfetches = <<>>
  /\ gout = <<>>
  /\ gqueue = <<>>
  /\ gresults = <<>>

CrwIdle ==
  /\ cinput = <<>>
  /\ cpc = "off"
  /\ cidx = 0
  /\ cresult = <<>>

FnIdle ==
  /\ tparent = <<>>
  /\ tnode = <<>>
  /\ fin = <<>>
  /\ fpc = "off"
  /\ fout = None

SesIdle ==
  /\ kookies = <<>>
  /\ session = no_session

ArtIdle ==
  /\ akind = "JournalScraper"
  /\ apc = <<>>
  /\ aout = <<>>
  /\ aqueue = <<>>
  /\ aresult = <<>>
  /\ ajpc = "off"
  /\ ajout = None

Rest == SesIdle /\ ArtIdle

JrnInit == JrnStart /\ SecIdle /\ GrfIdle /\ CrwIdle /\ FnIdle /\ Rest
SecInit == SecStart /\ JrnIdle /\ GrfIdle /\ CrwIdle /\ FnIdle /\ Rest
GrfInit == GrfStart /\ JrnIdle /\ SecIdle /\ CrwIdle /\ FnIdle /\ Rest
CrwInit == CrwStart /\ JrnOff /\ SecIdle /\ GrfIdle /\ FnIdle /\ Rest

SpecJournal == JrnInit /\ [][JrnNext]_vars
SpecSec == SecInit /\ [][SecNext]_vars
SpecGriffith == GrfInit /\ [][GrfNext]_vars
SpecCrawler == CrwInit /\ [][CrwNext]_vars

\* griffith main on a listing of the flaky pages and one more, under the
\* scheduling of the event loop: a step that can be taken is taken (a sleep
\* ends, a request comes back with a response or an error, a ready task runs).
GrfFairInit == GrfInit /\ gsite.n <= MaxFlaky + 1
SpecGriffithFair == GrfFairInit /\ [][GrfNext]_vars /\ WF_vars(GrfNext)

ListInit == ListStart /\ JrnIdle /\ SecIdle /\ GrfIdle /\ CrwIdle /\ Rest
SpecNodeLists == ListInit /\ [][ListNext]_vars

LocInit == LocStart /\ JrnIdle /\ SecIdle /\ GrfIdle /\ CrwIdle /\ Rest
SpecLocator == LocInit /\ [][LocNext]_vars

M2Init == M2Start /\ JrnIdle /\ SecIdle /\ GrfIdle /\ CrwIdle /\ Rest
SpecMethod2 == M2Init /\ [][M2Next]_vars

EntInit == EntStart /\ JrnIdle /\ SecIdle /\ GrfIdle /\ CrwIdle /\ Rest
SpecEntity == EntInit /\ [][EntNext]_vars

SessionInit ==
  \/ /\ SecStart /\ svariant = "sec_01"
     /\ SesStart /\ JrnIdle /\ GrfIdle /\ CrwIdle /\ FnIdle /\ ArtIdle
  \/ /\ MainStart
     /\ SesStart /\ JrnOff /\ SecIdle /\ GrfIdle /\ FnIdle /\ ArtIdle
SpecSession == SessionInit /\ [][SessionNext]_vars

ArtInit == ArtStart /\ JrnIdle /\ SecIdle /\ GrfIdle /\ CrwIdle /\ FnIdle /\ SesIdle
SpecArticles == ArtInit /\ [][ArtNext]_vars

(***************************************************************************)
(* Properties of journals_scraper/main.py                                  *)
(***************************************************************************)
RECURSIVE CountIf(_, _)
\* number of elements e of the sequence s with P-set membership e \in S
CountIf(s, S) ==
  IF s = <<>> THEN 0
  ELSE (IF Head(s) \in S THEN 1 ELSE 0) + CountIf(Tail(s), S)

\* the coroutine has ended and run has not taken its outcome yet (its
\* history is still there)
JrnFinished(u) ==
  /\ jpc[u] \in {"returned", "raised"}
  /\ \E k \in 1..Len(jqueue) : jqueue[k] = u

\* fetch attempts of start_uri that have come back, and those that failed
StartAttempts(u) == CountIf(jlog[u], {Ev("ok", "start"), Ev("fail", "start")})
StartFails(u) == CountIf(jlog[u], {Ev("fail", "start")})

\* C3: run never lets an exception of a pipeline escape, and what it returns
\* has exactly one entry per start URI: the Journals value of every URI whose
\* pipeline returned and one exception for every URI whose pipeline raised.
C3_RunOneEntryPerUri ==
  /\ jrunpc /= "escaped"
  /\ jrunpc = "returned" =>
       /\ Len(jresults) = Len(start_uris)
       /\ \A k \in 1..Len(jresults) :
            jresults[k].type = "Journals" \/ IsExc(jresults[k])
       /\ \A u \in Uris : \E k \in 1..Len(jresults) : jresults[k] = jout[u]
       /\ CountIf(jresults, {jout[u] : u \in {w \in Uris : jpc[w] = "raised"}})
            = Cardinality({u \in Uris : jpc[u] = "raised"})

C3_Witness ==
  /\ jrunpc = "returned"
  /\ Len(jresults) = 2
  /\ jresults[1].type = "AssertionError"
  /\ jresults[2].type = "Journals"

\* C4 (as claimed): a hop that keeps failing is fetched at most 4 times in
\* total (the first attempt and at most 3 retries).
C4_AtMostFourAttempts ==
  /\ \A u \in Uris : StartAttempts(u) <= 4
  /\ \A i \in 1..Len(gfetches) : gfetches[i] <= 4

\* C5: three failures of the first hop do not exhaust the retries: a Work
\* Item whose first hop failed three times and then succeeded ends with a
\* Journals value unless _scrapes itself fails, and every failed attempt is
\* followed by a backoff sleep before the hop is attempted again.
ThreeFailsThenOk(u) ==
  /\ StartFails(u) = 3
  /\ Ev("ok", "start") \in {jlog[u][k] : k \in 1..Len(jlog[u])}

ScrapesFailed(u) == jout[u].type \in {"AssertionError", "RequestsError"}

C5_ThreeFailsThenSuccess ==
  \A u \in Uris :
    /\ (StartFails(u) <= 3 /\ JrnFinished(u)) => jout[u].type /= "Exception"
    /\ (ThreeFailsThenOk(u) /\ JrnFinished(u) /\ ~ScrapesFailed(u)) =>
         jout[u] = Journals(start_uris[u], 1)
    /\ \A k \in 1..Len(jlog[u]) :
         jlog[u][k] = Ev("fail", "start") =>
           IF k < Len(jlog[u])
           THEN jlog[u][k + 1] = Ev("sleep", "start")
           ELSE jpc[u] \in {"sleep", "raised"}

C5_Witness ==
  \E u \in Uris :
    /\ jkind = "JournalScraper"
    /\ jlog[u] = <<Ev("fail", "start"), Ev("sleep", "start"),
                   Ev("fail", "start"), Ev("sleep", "start"),
                   Ev("fail", "start"), Ev("sleep", "start"),
                   Ev("ok", "start")>>
    /\ jout[u] = Journals(start_uris[u], 1)

\* C6 (as claimed): every failure entry of the result list carries the URL
\* of the Work Item that failed.
C6_FailureCarriesUrl ==
  \A k \in 1..Len(jresults) :
    IsExc(jresults[k]) =>
      \E u \in Uris :
        /\ jpc[u] = "raised"
        /\ jout[u] = jresults[k]
        /\ \E i \in 1..Len(jresults[k].urls) : jresults[k].urls[i] = start_uris[u]

\* C7 (as claimed): a Work Item fails on a hop only after that hop has been
\* retried with a backoff sleep.
C7_EveryHopRetried ==
  \A u \in Uris :
    (JrnFinished(u) /\ jpc[u] = "raised" /\ Last(jlog[u]).ev = "fail") =>
      \E k \in 1..Len(jlog[u]) : jlog[u][k] = Ev("sleep", Last(jlog[u]).hop)

(***************************************************************************)
(* Properties of sec.gov/sec_01.py and sec_00.py                           *)
(***************************************************************************)
\* the hops whose fetch get_item_1c `i` has issued, in order
RECURSIVE IssuedHops(_)
IssuedHops(log) ==
  IF log = <<>> THEN <<>>
  ELSE (IF Head(log).ev = "issue" THEN <<Head(log).hop>> ELSE <<>>)
         \o IssuedHops(Tail(log))

ViewerPath == <<"index", "filing", "metalinks", "viewer", "rendered">>

IsPrefix(a, b) == Len(a) <= Len(b) /\ \A k \in 1..Len(a) : a[k] = b[k]

\* C2 (as claimed): in sec_01 the failure of one get_item_1c never makes an
\* exception leave get_10k.
C2_ItemFailureNeverAborts ==
  svariant = "sec_01" => smainpc /= "raised_item"

\* C8: within one Work Item the hops are issued in program order, each only
\* after the response of the previous one has been received, never two
\* fetches outstanding, and extraction starts right after the response of
\* the last hop (the rendered document, or the filing page when sec_00 finds
\* no `doc` parameter) and is followed by no further fetch.
C8_HopsSequential ==
  \A i \in Items :
    LET log == slog[i] IN
    /\ IsPrefix(IssuedHops(log), ViewerPath)
    /\ \A k \in 1..Len(log) :
         /\ log[k].ev = "issue" =>
              \/ k = 1
              \/ /\ log[k - 1].ev = "recv"
                 /\ \E j \in 1..(Len(ViewerPath) - 1) :
                      log[k - 1].hop = ViewerPath[j] /\ log[k].hop = ViewerPath[j + 1]
         /\ log[k].ev = "recv" => (k > 1 /\ log[k - 1] = Ev("issue", log[k].hop))
         /\ log[k].ev = "extract" =>
              /\ k = Len(log)
              /\ k > 1
              /\ log[k - 1] = Ev("recv", log[k].hop)
              /\ log[k].hop = Last(IssuedHops(log))
              /\ log[k].hop = IF sdoc[i] = "present" THEN "rendered" ELSE "filing"

C8_Witness ==
  \E i \in Items :
    /\ svariant = "sec_01"
    /\ sout[i].type = "SECCompany"
    /\ Last(slog[i]) = Ev("extract", "rendered")
    /\ Len(slog[i]) = 11

\* C9 (as claimed): a Work Item that went through the viewer has issued
\* exactly three fetches, one that skipped it exactly two.
C9_ThreeFetchesThroughViewer ==
  \A i \in Items :
    /\ (sdoc[i] = "present" /\ spc[i] = "returned") => Len(IssuedHops(slog[i])) = 3
    /\ (sdoc[i] = "absent" /\ spc[i] \in {"returned", "raised"}) =>
         Len(IssuedHops(slog[i])) = 2

\* C9 (amended): a Work Item that went through the viewer has issued exactly
\* five fetches, one per hop: filing index, filing link, MetaLinks.json, the
\* ix.html viewer and the rendered document; a Work Item whose filing
\* response carries no `doc` parameter has issued exactly the first two.
C9_FiveFetchesThroughViewer ==
  \A i \in Items :
    /\ (sdoc[i] = "present" /\ spc[i] = "returned") => IssuedHops(slog[i]) = ViewerPath
    /\ (sdoc[i] = "absent" /\ spc[i] \in {"returned", "raised"}) =>
         IssuedHops(slog[i]) = <<"index", "filing">>

C9_Witness ==
  /\ \E i \in Items :
       sdoc[i] = "present" /\ spc[i] = "returned" /\ Len(IssuedHops(slog[i])) = 5
  /\ \E i \in Items :
       sdoc[i] = "absent" /\ spc[i] = "raised" /\ Len(IssuedHops(slog[i])) = 2

\* C10 (as claimed): in sec_01, when the filing response carries no `doc`
\* parameter, the pipeline goes on to extraction on that response's tree
\* and does not raise on the missing parameter.
C10_NoDocSkipsViewer ==
  \A i \in Items :
    (svariant = "sec_01" /\ sdoc[i] = "absent") =>
      /\ Last(slog[i]) = Ev("extract", "filing")
      /\ sout[i].type /= "IndexError"

(***************************************************************************)
(* Properties of griffith.edu.au/main.py                                   *)
(***************************************************************************)
\* get_scholarship coroutines that have started and not yet finished
InFlight == {i \in Scholarships : gpc[i] \in {"sleep", "fetch", "backoff"}}

\* get_item_1c coroutines that have started and not yet finished
SecInFlight == {i \in Items : spc[i] \notin {"new", "returned", "raised"}}

\* C1 (as claimed): the pipelines in flight never outnumber the declared
\* limit of the semaphore, in griffith main (5) and in sec_01 (9).
C1_InFlightWithinLimit ==
  /\ Cardinality(InFlight) <= GriffithSemaphoreValue
  /\ svariant = "sec_01" => Cardinality(SecInFlight) <= SemaphoreValue

(***************************************************************************)
(* Properties of Crawler.run                                               *)
(***************************************************************************)
RECURSIVE InputUris(_)
\* number of start URIs of the first k entries of the input mapping
InputUris(k) == IF k = 0 THEN 0 ELSE cinput[k].n + InputUris(k - 1)

\* C11: when Crawler.run has returned, its result has exactly one entry per
\* start URI of the input mapping, the URIs of a domain without a scraper
\* class included.
C11_CrawlerOneEntryPerUri ==
  cpc = "returned" => Len(cresult) = InputUris(Len(cinput))

(***************************************************************************)
(* Properties of not_decendants and remove_decendants                      *)
(***************************************************************************)
\* the elements of a node list
Members(nodes) == {nodes[k] : k \in 1..Len(nodes)}

\* the members of a node list that no other member contains
Outermost(par, nodes) ==
  {n \in Members(nodes) : ~ \E o \in Members(nodes) : IsDescendant(par, n, o)}

\* C15: on a non-empty candidate list not_decendants does not raise and
\* returns a member of the list that is not a descendant of another member.
C15_OutermostCandidateWins ==
  (fpc = "not_decendants" /\ fout.arg /= <<>>) =>
     /\ fout.raised = None
     /\ fout.node \in Outermost(tparent, fout.arg)

\* not_decendants was given a list with a nested candidate after the
\* outermost ones
C15_Witness ==
  /\ fpc = "not_decendants"
  /\ Len(fout.arg) >= 2
  /\ Last(fout.arg) \notin Outermost(tparent, fout.arg)
  /\ fout.node \in Outermost(tparent, fout.arg)

\* C16: applying remove_decendants to its own result changes nothing.
C16_RemoveDecendantsIdempotent ==
  fpc = "remove_decendants_twice" => fout.nodes = fout.once

\* C17: the list remove_decendants returns holds no descendant of another of
\* its nodes, and holds every input node that no other input node contains.
C17_NoDescendantLeft ==
  fpc = "remove_decendants" =>
     /\ Outermost(tparent, fout.nodes) = Members(fout.nodes)
     /\ Outermost(tparent, fout.arg) \subseteq Members(fout.nodes)

(***************************************************************************)
(* Properties of the Item 1C locator                                       *)
(***************************************************************************)
Located == fpc \in {"parse_method_1", "_parse_item_1c"}

\* the text runs of the document the locator was called with
DocText == text_content(fout.tree, tnode, 0)

\* C12: on a document without a match of the start pattern or without a
\* match of the end pattern the locator returns (None, False) and does not
\* raise.
C12_NoMatchIsAbsent ==
  (/\ Located
   /\ \/ \A k \in 1..Len(DocText) : DocText[k] /= "Item 1C"
      \/ \A k \in 1..Len(DocText) :
           DocText[k] \notin {"Item 1D", "Item 2. Properties"})
  => (fout.raised = None /\ fout.found = FALSE /\ fout.text = <<>>)

\* the locator was given a document with the start heading and without a
\* match of the end pattern
C12_Witness ==
  /\ Located
  /\ fout.stage = "no match"
  /\ fout.found = FALSE
  /\ \E k \in 1..Len(DocText) : DocText[k] = "Item 1C"
  /\ Len(tparent) >= 2

\* the elements of the document whose text starts with the start heading,
\* and those whose text starts with an end heading
StartCandidates ==
  {n \in 1..Len(fout.tree) :
     starts_with(text_content(fout.tree, tnode, n), "Item 1C")}
EndCandidates ==
  {n \in 1..Len(fout.tree) :
     \/ starts_with(text_content(fout.tree, tnode, n), "Item 1D")
     \/ starts_with(text_content(fout.tree, tnode, n), "Item 2. Properties")}

\* the document has one match of the start pattern and one of the end pattern
OneMatchEach ==
  /\ Cardinality({k \in 1..Len(DocText) : DocText[k] = "Item 1C"}) = 1
  /\ Cardinality({k \in 1..Len(DocText) :
                    DocText[k] \in {"Item 1D", "Item 2. Properties"}}) = 1

\* s and e are the start and the end heading node (the outermost element
\* that starts with the heading), and they are siblings, s first
SiblingHeadings(s, e) ==
  /\ OneMatchEach
  /\ Outermost(fout.tree, Ascending(StartCandidates)) = {s}
  /\ Outermost(fout.tree, Ascending(EndCandidates)) = {e}
  /\ fout.tree[s] = fout.tree[e]
  /\ s < e

\* C13: with one start heading node and one end heading node that are
\* siblings, the node range the locator collects is the start heading node
\* and its following siblings up to, not including, the end heading node.
C13_RangeBoundedByHeadings ==
  Located =>
    \A s, e \in 1..Len(fout.tree) :
      SiblingHeadings(s, e) =>
        /\ fout.found
        /\ fout.data = Ascending({j \in s..(e - 1) : fout.tree[j] = fout.tree[s]})

\* the locator got as far as computing its markers
HasMarkers == Located /\ fout.stage \notin {"no match", "pop"}

\* the text run of the last match of the end pattern in the document
LastEndRun ==
  LET K == {k \in 1..Len(DocText) :
              DocText[k] \in {"Item 1D", "Item 2. Properties"}}
  IN DocText[CHOOSE k \in K : \A j \in K : j <= k]

\* C14: in sec_01.parse_method_1 the end marker is the text the last match
\* of the end pattern begins with, for either alternative of the pattern,
\* and it is never the empty string; the start marker is the text of the
\* last match of the start pattern.
C14_MarkersAreLastMatches ==
  (HasMarkers /\ fpc = "parse_method_1") =>
     /\ fout.start = "Item 1C"
     /\ fout.end /= ""
     /\ starts_with(<<LastEndRun>>, fout.end)

\* t qualifies as the start boundary: its text starts with the start
\* marker, or the text of an element inside it does
QualifiesAsStart(t) ==
  \/ starts_with(text_content(tparent, tnode, t), fout.start)
  \/ found_1c(tparent, tnode, t, fout.start)

\* C18: when the locator reports found = True, the range it collected begins
\* at a node that qualifies as the start boundary and the returned text is
\* not the placeholder; with no qualifying node it reports (None, False).
C18_FoundMeansStartFound ==
  (Located /\ fout.found) =>
     /\ fout.text /= placeholder
     /\ fout.data /= <<>>
     /\ QualifiesAsStart(Head(fout.data))

\* C19 as stated: the end boundary node is not among the nodes handed to the
\* renderer, in either locator.
C19_EndNodeNeverCollected ==
  (Located /\ fout.stage = "done") =>
     fout.end_target \notin Members(fout.data)

\* C19: in sec_02._parse_item_1c the end boundary node is not among the
\* nodes handed to the renderer; in sec_01.parse_method_1 it is the last of
\* them.
C19_EndNodeBySource ==
  /\ (fpc = "_parse_item_1c" /\ fout.stage = "done") =>
        /\ fout.data /= <<>>
        /\ fout.end_target \notin Members(fout.data)
  /\ (fpc = "parse_method_1" /\ fout.stage = "done") =>
        /\ fout.data /= <<>>
        /\ Last(fout.data) = fout.end_target
        /\ fout.end_target \notin Members(SubSeq(fout.data, 1, Len(fout.data) - 1))

\* sec_02 collected a range that starts at a node holding the start heading
\* and ends with the sibling just before the end boundary
C19_Witness ==
  /\ fpc = "_parse_item_1c"
  /\ fout.stage = "done"
  /\ fout.cut >= 2
  /\ Last(fout.data) = fout.end_target - 1
  /\ tparent[fout.end_target - 1] = tparent[fout.end_target]

(***************************************************************************)
(* Properties of sec_00.parse_method_2                                     *)
(***************************************************************************)
\* C20: the nodes of the range `data` that parse_method_2 collects are
\* siblings of one another, on the sibling axis and on the wider axis.
C20_SectionSharesOneParent ==
  (fpc = "parse_method_2" /\ fout.found) =>
     \A a, b \in Members(fout.data) : tparent[a] = tparent[b]

\* what the sibling axis of the target yields: the target itself when it
\* has an id, else its nearest preceding sibling with an id in it; and its
\* first following sibling with an id in it (0: none)
SiblingStart ==
  IF tnode[fout.target].id THEN fout.target
  ELSE LET S == {j \in 1..(fout.target - 1) :
                   /\ tparent[j] = tparent[fout.target]
                   /\ has_id(tparent, tnode, j)}
       IN IF S = {} THEN 0 ELSE CHOOSE j \in S : \A k \in S : k <= j
SiblingStop ==
  LET S == {j \in (fout.target + 1)..Len(tparent) :
              /\ tparent[j] = tparent[fout.target]
              /\ has_id(tparent, tnode, j)}
  IN IF S = {} THEN 0 ELSE CHOOSE j \in S : \A k \in S : j <= k

\* C21: parse_method_2 takes the boundaries from the sibling axis when that
\* axis yields both of them, and consults the wider axis only when it does
\* not; when a boundary is still missing after the wider axis it returns
\* (None, False).
C21_SiblingAxisFirst ==
  (fpc = "parse_method_2" /\ fout.target /= 0) =>
     /\ (SiblingStart /= 0 /\ SiblingStop /= 0) =>
           /\ fout.pred = "-sibling"
           /\ fout.start = SiblingStart
           /\ fout.stop = SiblingStop
     /\ fout.pred = "" => (SiblingStart = 0 \/ SiblingStop = 0)
     /\ (fout.start = 0 \/ fout.stop = 0) =>
           /\ fout.pred = ""
           /\ fout.raised = None
           /\ fout.found = FALSE
           /\ fout.text = <<>>

\* the sibling axis gave no stop, the wider axis gave one, and a section
\* was returned
C21_Witness ==
  /\ fpc = "parse_method_2"
  /\ fout.target /= 0
  /\ SiblingStop = 0
  /\ fout.pred = ""
  /\ fout.stop /= 0
  /\ fout.found

(***************************************************************************)
(* Properties of parse_entity and of the record get_item_1c builds         *)
(***************************************************************************)
ComkSet == {comk[j] : j \in 1..Len(comk)}
SeckSet == {seck[j] : j \in 1..Len(seck)}

\* the number of sub-entities: the largest occurrence count of a repeatable
\* field
SubEntities ==
  CHOOSE n \in 0..MaxSub :
    /\ \A f \in ComkSet : fin.count[f] <= n
    /\ \E f \in ComkSet : fin.count[f] = n

\* C22: parse_entity returns one record per sub-entity; for a repeatable
\* field that occurs in m < n nodes the first m records hold its values and
\* the other n - m hold "N/A".
C22_PaddedToLargestCount ==
  fpc = "parse_entity" =>
     /\ Len(fout.company_info) = SubEntities
     /\ \A k \in 1..Len(fout.company_info), f \in ComkSet :
          /\ f \in DOMAIN fout.company_info[k]
          /\ fout.company_info[k][f] =
               IF k <= fin.count[f] THEN Node(f, k) ELSE NA

\* C23: every sub-entity record parse_entity returns has the four
\* repeatable field names as its keys, no more and no fewer.
C23_UniformKeySet ==
  fpc = "parse_entity" =>
     \A k \in 1..Len(fout.company_info) :
        DOMAIN fout.company_info[k] = ComkSet

\* records were returned for a page on which one repeatable field has no
\* node at all
C23_Witness ==
  /\ fpc = "parse_entity"
  /\ Len(fout.company_info) >= 2
  /\ \E f \in ComkSet : fin.count[f] = 0
  /\ \E f \in ComkSet : fout.company_info[2][f] = NA

\* C24: the primary record of parse_entity has every non-repeatable field,
\* with "N/A" for a field without node, and building the SECCompany record
\* from it does not fail for lack of a field.
C24_MissingFieldIsNA ==
  /\ fpc = "parse_entity" =>
        \A f \in SeckSet :
           /\ f \in DOMAIN fout.sec_company_info
           /\ f \notin fin.present => fout.sec_company_info[f] = NA
  /\ fpc = "get_item_1c" => fout.raised = None

\* C25: when the locator methods all report found = False, get_item_1c does
\* not raise and returns a record with item_1c unset and the entity fields.
C25_NotFoundIsSuccess ==
  (fpc = "get_item_1c" /\ ~ fout.found) =>
     /\ fout.raised = None
     /\ fout.item_1c = "None"
     /\ DOMAIN fout.fields = {"EntityAddressAddressLines"} \cup fin.present

(***************************************************************************)
(* Frame of the locator                                                    *)
(***************************************************************************)
\* C27: the locator leaves the tree it was given as it was: after the call
\* every element has the parent it had before, also when the call returned
\* (None, False).
C27_TreeUnchanged ==
  Located => tparent = fout.tree

(***************************************************************************)
(* Referer of the requests of one JournalScraper instance                  *)
(***************************************************************************)
\* C28: the Referer a fetch of one Work Item carries is the resolved URL of
\* the previous fetch of that same Work Item, or absent when no fetch of the
\* Work Item has been resolved yet: absent while the fetch of start_uri is in
\* flight, the URL of the start page while the In-Press link is fetched, the
\* URL of the link page or of a pagination page of the same Work Item while a
\* pagination page is fetched.
C28_RefererOfSameWorkItem ==
  \A u \in Uris :
    /\ jpc[u] = "get_parser" => jheaders[u] = NoUrl
    /\ jpc[u] = "scrapes_link" => jheaders[u] = Url(u, "start", 0)
    /\ jpc[u] = "scrapes_page" =>
         /\ jheaders[u].uri = u
         /\ jheaders[u].hop \in {"link", "page"}

(***************************************************************************)
(* Termination of griffith.edu.au main                                     *)
(***************************************************************************)
\* C29: main eventually terminates, whatever the remote site answers: it
\* saves its output (or leaves with the exception of the listing fetch); the
\* `while` loop over the scholarships whose html is None does not go on for
\* ever when one page fails on every attempt.
C29_MainTerminates ==
  <>(gmainpc \in {"saved", "raised"})

(***************************************************************************)
(* Nested fan-out of _scrape_articles                                      *)
(***************************************************************************)
fetched_articles == {i \in Articles : aout[i].type = "dict"}

\* C30: when _get_journals is over, it has returned a Journals value that
\* holds the articles whose fetch succeeded, also when the fetch of another
\* article failed; it has not raised.
C30_ArticleFailureStaysLocal ==
  ajpc \in {"returned", "raised"} =>
    /\ ajout.type = "Journals"
    /\ ajout.n = Cardinality(fetched_articles)

(***************************************************************************)
(* Writes to the shared session                                            *)
(***************************************************************************)
\* a request of the running main or of one of its live pipelines has been
\* issued
RequestIssued ==
  \/ smainpc \notin {"off", "start"}
  \/ \E u \in Uris : jpc[u] /= "new"

====
